---- MODULE Spec2Model ----
(***************************************************************************)
(* socket-lemur: the channel registry, the authentication gate and the     *)
(* dispatcher of SocketServer (the version that binds a push manager to a  *)
(* channel and resolves the handler shape with the guards of lib/guard),   *)
(* together with TokenManager.extract.                                     *)
(*                                                                         *)
(* Strings that the code builds by concatenation (event names, bearer      *)
(* credentials) are sequences of string pieces, so that                    *)
(* `${name}:push-notifiation` is <<name, ":push-notifiation">> and         *)
(* `Bearer ${token}` is <<"Bearer", " ", token>>.  JavaScript's undefined  *)
(* and '' are both falsy in every place the code reads a credential or a   *)
(* room, and both are the empty sequence / the empty string here.          *)
(***************************************************************************)
EXTENDS Naturals, Sequences, FiniteSets

VARIABLES
    settings,       \* ServerSettings given to the constructor
    channels,       \* this.channels : registry key -> Channel
    phase,          \* "setup" | "serving" | "crashed" (uncaught exception in setup code)
    script,         \* the registration calls the setup code has still to make
    nreg,           \* number of registration calls made so far
    lastReg,        \* the latest registration call and how it ended
    authorization,  \* this.authorization : one field of the server instance
    sockets,        \* connection id -> the live socket of that client, if any
    last,           \* the callback the event loop has just run: a connection attempt
                    \* and the middleware's verdict, a disconnect, a join or leave,
                    \* or a dispatch and what it invoked and emitted; "none" between
                    \* two callbacks
    rooms,          \* this.rooms : room -> the set of sockets added to it
    joined,         \* the transport's own rooms: connection id -> rooms of its socket
    via,            \* the join events received and not undone since: <<id, channel, room>>
    emap,           \* ExpiringMap.map : key -> [item, timestamp]
    now,            \* Date.now()
    timers,         \* the due times of the pending setTimeout callbacks of ExpiringMap,
                    \* in the order they were scheduled
    swept,          \* the entries the latest cleanup callback deleted
    mlast,          \* the latest thing that happened to the ExpiringMap: [op, key]
    subs,           \* PushLocalMemory.subscriptions : id -> stored record
    metrics,        \* MetricsLocalMemory.metrics
    tasks,          \* the running calls of WebPushLemur.send, one chain per record
    pcall,          \* the top-level call made on the WebPushLemur instance
    psettings,      \* the settings the WebPushLemur instance was constructed with
    vcall,          \* the latest send followed field by field: the record and whether it was sent
    listeners,      \* the client socket's listeners: pairs <<event name, callback>>
    clast,          \* the latest call made on a SocketClient and what it sent
    nconnection,    \* the calls of SocketServer.connection() made so far
    attached,       \* connection id -> the 'connection' listeners that ran for its socket
    arrivals,       \* the channel events that have arrived at the server so far
    inbox,          \* connection id -> the events received and not yet given to a listener
    started         \* the token checks and handler invocations, in the order they began

roomVars == <<rooms, joined, via>>

mapVars == <<emap, now, timers, swept, mlast>>

serverVars == <<settings, channels, phase, script, nreg, lastReg, authorization,
                sockets, last>>

pushVars == <<subs, metrics, tasks, pcall, psettings, vcall>>

clientVars == <<listeners, clast>>

streamVars == <<nconnection, attached, arrivals, inbox, started>>

vars == <<settings, channels, phase, script, nreg, lastReg, authorization,
          sockets, last, rooms, joined, via, emap, now, timers, swept, mlast,
          subs, metrics, tasks, pcall, psettings, vcall, listeners, clast,
          nconnection, attached, arrivals, inbox, started>>

-----------------------------------------------------------------------------
(* Bounds and input sets *)

MaxRegistrations == 2

Conns == {"A", "B"}

ChannelNames == {"get/products", "post/products"}

Rooms == {"", "room1"}

ApiKey == "api-key"

Secret == "jwt-secret"

PushSuffix == ":push-notifiation"

Unauthorized == "Unauthorized access: No valid session found."

UnknownEventType == "Unknown event type!"

-----------------------------------------------------------------------------
(* JavaScript values *)

Undefined == [type |-> "undefined", keys |-> {}, id |-> ""]

EmptyObject == [type |-> "object", keys |-> {}, id |-> ""]

UserSession == [type |-> "object", keys |-> {"id", "iat"}, id |-> "10"]

\* a non-empty string is truthy; undefined and '' are not
Truthy(s) == s # <<>>

TruthyStr(s) == s # ""

-----------------------------------------------------------------------------
(* jsonwebtoken and TokenManager *)

\* The tokens a client can hold: who signed each one and what it decodes to.
Jwts == {"jwt.good", "jwt.forged", "jwt.empty"}

JwtSecret(j) == IF j = "jwt.forged" THEN "other-secret" ELSE Secret

JwtPayload(j) == IF j = "jwt.empty" THEN EmptyObject ELSE UserSession

\* jwt.verify(token, secret): the payload, or a throw.
JwtVerify(token, secret) ==
    IF Len(token) = 1 /\ token[1] \in Jwts /\ JwtSecret(token[1]) = secret
    THEN [threw |-> FALSE, value |-> JwtPayload(token[1])]
    ELSE [threw |-> TRUE, value |-> Undefined]

\* TokenManager.extract: the throw of jwt.verify is caught and undefined is returned.
extract(token, secret) ==
    LET r == JwtVerify(token, secret)
    IN  IF r.threw THEN [threw |-> FALSE, value |-> Undefined] ELSE r

\* authorization.replace(/Bearer/g, '').replace(/ /g, "")
StripBearer(header) ==
    SelectSeq(header, LAMBDA p : p # "Bearer" /\ p # " ")

\* SocketServer.validToken: {} only when extract throws, which it never does.
validToken(secret, header) ==
    LET r == extract(StripBearer(header), secret)
    IN  IF r.threw THEN EmptyObject ELSE r.value

\* Object.keys(v): throws a TypeError on undefined.
ObjectKeys(v) ==
    IF v.type = "undefined"
    THEN [threw |-> TRUE, value |-> {}]
    ELSE [threw |-> FALSE, value |-> v.keys]

\* a validApiKey that accepts every key
anyApiKey(apikey, configured) == TRUE

\* SocketServer.validApiKey
validApiKey(apikey, configured) == apikey = configured

-----------------------------------------------------------------------------
(* Handlers: the functions the application registers.  The dispatcher reads *)
(* only a handler's declared number of parameters (Function.length).        *)

Handlers == {
    [id |-> "getProducts",  length |-> 2],   \* async (_, res) => res(products)
    [id |-> "postProducts", length |-> 3],   \* async (req, {emit, to}, error) => ...
    [id |-> "handler3",     length |-> 3],
    [id |-> "webPush4",     length |-> 4] }  \* async (req, res, error, webpush) => ...

HandlerById(i) == CHOOSE h \in Handlers : h.id = i

-----------------------------------------------------------------------------
(* Registration: channel() and customChannel() *)

\* An argument of the rest parameter ...args.
ArgUndefined == [type |-> "undefined", bool |-> FALSE]

ArgBool(b) == [type |-> "boolean", bool |-> b]

ArgPush == [type |-> "WebPushLemur", bool |-> FALSE]

NoPush == "none"

PushManager == "webPushLemur"

Arg(args, i) == IF i <= Len(args) THEN args[i] ELSE ArgUndefined

\* lib/guard isWebPushLemur: typeof event.sendNotificationToAll reads a property
\* of its argument, which throws a TypeError when the argument is undefined.
isWebPushLemur(arg) ==
    IF arg.type = "undefined"
    THEN [threw |-> TRUE, value |-> FALSE]
    ELSE [threw |-> FALSE, value |-> arg.type = "WebPushLemur"]

\* SocketServer.roomExpirationTime().state
roomExpirationTimeState(s) == s.roomsEnabled

Key(name, pushManager) ==
    IF pushManager # NoPush THEN <<name, PushSuffix>> ELSE <<name>>

Entry(onEvent, tokenRequired, roomSupport, pushManager) ==
    [onEvent |-> onEvent, tokenRequired |-> tokenRequired,
     roomSupport |-> roomSupport, pushManager |-> pushManager]

Store(chs, key, entry) ==
    [k \in DOMAIN chs \cup {key} |-> IF k = key THEN entry ELSE chs[k]]

\* if (this.channels.has(channelName)) return; this.channels.set(channelName, ...)
storeFirst(chs, key, entry) ==
    IF key \in DOMAIN chs THEN chs ELSE Store(chs, key, entry)

\* SocketServer.channel(name, onEvent, ...args)
channel(chs, s, name, onEvent, args) ==
    LET tokenRequired == IF Arg(args, 1).type = "boolean" THEN Arg(args, 1).bool ELSE FALSE
        roomSupport == IF Arg(args, 2).type = "boolean" THEN Arg(args, 2).bool
                       ELSE roomExpirationTimeState(s)
        g1 == isWebPushLemur(Arg(args, 1))
        g2 == isWebPushLemur(Arg(args, 2))
        g3 == isWebPushLemur(Arg(args, 3))
        pushManager == IF g1.value \/ g2.value \/ g3.value THEN PushManager ELSE NoPush
    IN  IF g1.threw \/ g2.threw \/ g3.threw
        THEN [threw |-> TRUE, channels |-> chs]
        ELSE [threw |-> FALSE,
              channels |-> storeFirst(chs, Key(name, pushManager),
                              Entry(onEvent, tokenRequired, roomSupport, pushManager))]

\* SocketServer.customChannel(name, onEvent, ...args)
customChannel(chs, s, name, onEvent, args) ==
    LET tokenRequired == IF Arg(args, 1).type = "boolean" THEN Arg(args, 1).bool ELSE FALSE
        roomSupport == IF Arg(args, 2).type = "boolean" THEN Arg(args, 2).bool
                       ELSE roomExpirationTimeState(s)
        g1 == isWebPushLemur(Arg(args, 1))
        pushManager == IF g1.value THEN PushManager ELSE NoPush
    IN  IF g1.threw
        THEN [threw |-> TRUE, channels |-> chs]
        ELSE [threw |-> FALSE,
              channels |-> storeFirst(chs, Key(name, pushManager),
                              Entry(onEvent, tokenRequired, roomSupport, pushManager))]

\* The call shapes of the overloads: (), (t), (t, r), (pm), (t, pm), (t, r, pm).
ArgShapes ==
    {<<>>, <<ArgPush>>}
    \cup {<<ArgBool(t)>> : t \in BOOLEAN}
    \cup {<<ArgBool(t), ArgPush>> : t \in BOOLEAN}
    \cup {<<ArgBool(t), ArgBool(r)>> : t \in BOOLEAN, r \in BOOLEAN}
    \cup {<<ArgBool(t), ArgBool(r), ArgPush>> : t \in BOOLEAN, r \in BOOLEAN}

Call(method, name, onEvent, args) ==
    [method |-> method, name |-> name, onEvent |-> onEvent, args |-> args]

Register(chs, s, call) ==
    IF call.method = "channel"
    THEN channel(chs, s, call.name, call.onEvent, call.args)
    ELSE customChannel(chs, s, call.name, call.onEvent, call.args)

NoCall == Call("none", "", "", <<>>)

EmptyRegistry == [k \in {} |-> Entry("", FALSE, FALSE, NoPush)]

NoReg == [call |-> NoCall, threw |-> FALSE]

-----------------------------------------------------------------------------
(* Emission: success() and error() *)

Products == "[Pizza, Pasta]"

ToSocket(conn) == [kind |-> "socket", id |-> conn]

ToRoom(room) == [kind |-> "room", id |-> room]

\* an addressing that ignores the room
SocketOnly(room, conn) == ToSocket(conn)

\* room || socket
RoomOrSocket(room, conn) == IF TruthyStr(room) THEN ToRoom(room) ELSE ToSocket(conn)

\* SocketServer.success: io.to(room).emit or socket.emit of `${channel}:success`
success(channelName, response, data) ==
    [event |-> channelName \o <<":success">>, to |-> response,
     payload |-> [tag |-> "data", val |-> data]]

\* SocketServer.error: `${channel}:error` with payload { error }
error(channelName, response, err) ==
    [event |-> channelName \o <<":error">>, to |-> response,
     payload |-> [tag |-> "error", val |-> err]]

-----------------------------------------------------------------------------
(* What a registered function does when it is called.  A behaviour is the  *)
(* list of calls it makes on its parameters, how it ends, and whether it   *)
(* is an async function (a throw inside one rejects the returned promise). *)
(*   "second" : calls its 2nd parameter as a function,  res(products)      *)
(*   "emit"   : calls emit(channel, data) of its 2nd parameter             *)
(*   "to"     : calls to(channel, data, room) of its 2nd parameter with    *)
(*              the room it was given                                      *)
(*   "third"  : calls its 3rd parameter as a function,  error(message)     *)

Behaviour(ops, end, async) == [ops |-> ops, end |-> end, async |-> async]

ResolveList == Behaviour(<<"second">>, "return", TRUE)

Behaviours == {
    ResolveList,
    Behaviour(<<"second">>, "return", FALSE),
    Behaviour(<<"emit">>, "return", TRUE),
    Behaviour(<<"to">>, "return", FALSE),
    Behaviour(<<"third">>, "return", TRUE),
    Behaviour(<<"emit", "third">>, "return", FALSE),
    Behaviour(<<>>, "return", FALSE),
    Behaviour(<<>>, "throw", FALSE),
    Behaviour(<<>>, "throwRaw", FALSE),
    Behaviour(<<>>, "throw", TRUE) }

\* usecases/server.ts: get/products passes the list to its 2nd parameter;
\* post/products emits through its 2nd parameter or calls its 3rd.
BehavioursOf(h) ==
    CASE h.id = "getProducts"  -> {ResolveList}
      [] h.id = "postProducts" -> {Behaviour(<<"emit">>, "return", TRUE),
                                   Behaviour(<<"third">>, "return", TRUE)}
      [] OTHER -> Behaviours

NoThrow == [is |-> FALSE, message |-> "", raw |-> ""]

ThrowError(message) == [is |-> TRUE, message |-> message, raw |-> ""]

ThrowRaw(raw) == [is |-> TRUE, message |-> "", raw |-> raw]

HandlerChannel == <<"custom response channel">>

HandlerError == "field name is required!."

\* One call the handler makes.  With the socket-context shape the 2nd argument
\* is the object {room, to, emit}; with the simple shape it is onSuccess.
HandlerCall(op, shape, channelName, conn, room) ==
    CASE op = "third" ->
            [emits |-> <<error(channelName, RoomOrSocket(room, conn), HandlerError)>>,
             thrown |-> NoThrow]
      [] op = "second" /\ shape = "simple" ->
            [emits |-> <<success(channelName, RoomOrSocket(room, conn), Products)>>,
             thrown |-> NoThrow]
      [] op = "second" /\ shape = "custom" ->
            [emits |-> <<>>, thrown |-> ThrowError("res is not a function")]
      [] op = "emit" /\ shape = "custom" ->
            [emits |-> <<success(HandlerChannel, ToSocket(conn), Products)>>,
             thrown |-> NoThrow]
      [] op = "to" /\ shape = "custom" /\ TruthyStr(room) ->
            [emits |-> <<success(HandlerChannel, ToRoom(room), Products)>>,
             thrown |-> NoThrow]
      [] op = "to" /\ shape = "custom" /\ ~TruthyStr(room) ->
            \* success(channel, undefined, data): undefined.emit
            [emits |-> <<>>, thrown |-> ThrowError("Cannot read properties of undefined")]
      [] OTHER ->
            [emits |-> <<>>, thrown |-> ThrowError("emit is not a function")]

RECURSIVE HandlerCalls(_, _, _, _, _, _)
HandlerCalls(ops, shape, channelName, conn, room, acc) ==
    IF ops = <<>>
    THEN [emits |-> acc, thrown |-> NoThrow]
    ELSE LET r == HandlerCall(Head(ops), shape, channelName, conn, room)
         IN  IF r.thrown.is
             THEN [emits |-> acc \o r.emits, thrown |-> r.thrown]
             ELSE HandlerCalls(Tail(ops), shape, channelName, conn, room, acc \o r.emits)

\* How the call of the handler ends, after the calls `r` it made.
Ending(beh, r) ==
    [emits |-> r.emits,
     thrown |-> IF r.thrown.is THEN r.thrown
                ELSE CASE beh.end = "throw"    -> ThrowError("boom")
                       [] beh.end = "throwRaw" -> ThrowRaw("raw failure")
                       [] OTHER                -> NoThrow,
     async |-> beh.async]

\* event(data, events | onSuccess, onError[, pushManager])
CallHandler(beh, shape, channelName, conn, room) ==
    Ending(beh, HandlerCalls(beh.ops, shape, channelName, conn, room, <<>>))

-----------------------------------------------------------------------------
(* lib/guard: the handler shape is read off the declared parameter count *)

isLemurCustomSimpleEvent(event) == event.length = 3

isLemurCustomWebPushEvent(event) == event.length = 4

isLemurSimpleEvent(event) == event.length = 3

isLemurSimpleWebPushEvent(event) == event.length = 4

\* error?.message || error
ErrorText(e) == IF e.message # "" THEN e.message ELSE e.raw

NoResult == [credential |-> <<>>, session |-> Undefined, dataSession |-> Undefined,
             shape |-> "none", emits |-> <<>>, threw |-> FALSE, rejected |-> FALSE,
             handlerError |-> NoThrow]

\* The branch of the try block that handleEvent takes for a handler.
ShapeOf(event) ==
    IF isLemurCustomSimpleEvent(event) \/ isLemurCustomWebPushEvent(event)
    THEN "custom"
    ELSE IF isLemurSimpleEvent(event) \/ isLemurSimpleWebPushEvent(event)
         THEN "simple"
         ELSE "unknown"

\* a catch that also awaited the promise an async handler returns
CaughtAwaited(shape, channelName, conn, room, r) ==
    IF r.thrown.is
    THEN [shape |-> shape, rejected |-> FALSE, handlerError |-> r.thrown,
          emits |-> r.emits \o <<error(channelName, RoomOrSocket(room, conn),
                                      ErrorText(r.thrown))>>]
    ELSE [shape |-> shape, rejected |-> FALSE, handlerError |-> r.thrown,
          emits |-> r.emits]

\* catch (error) { this.error(channelName, room || socket, error?.message || error) }
\* around `return event(...)`: it catches what the call itself throws; the promise
\* an async handler returns is returned as it is, not awaited.
Caught(shape, channelName, conn, room, r) ==
    IF r.thrown.is /\ ~r.async
    THEN [shape |-> shape, rejected |-> FALSE, handlerError |-> r.thrown,
          emits |-> r.emits \o <<error(channelName, RoomOrSocket(room, conn),
                                      ErrorText(r.thrown))>>]
    ELSE [shape |-> shape, rejected |-> r.thrown.is, handlerError |-> r.thrown,
          emits |-> r.emits]

\* the try block of handleEvent
invoke(channelName, conn, room, event, beh) ==
    IF ShapeOf(event) = "unknown"
    THEN \* throw new Error("Unknown event type!"), caught below
         [shape |-> "unknown", rejected |-> FALSE, handlerError |-> NoThrow,
          emits |-> <<error(channelName, RoomOrSocket(room, conn), UnknownEventType)>>]
    ELSE Caught(ShapeOf(event), channelName, conn, room,
                CallHandler(beh, ShapeOf(event), channelName, conn, room))

Dispatched(token, sess, dataSess, run) ==
    [credential |-> token, session |-> sess, dataSession |-> dataSess,
     shape |-> run.shape, emits |-> run.emits, threw |-> FALSE,
     rejected |-> run.rejected, handlerError |-> run.handlerError]

\* a token check that stores the session before it looks at it
GateStoresFirst(token, session, s, channelName, conn, sock, room, event, tokenRequired, beh) ==
    IF tokenRequired /\ TruthyStr(s.secret)
    THEN IF ObjectKeys(session).threw
         THEN [NoResult EXCEPT !.credential = token, !.session = session,
                               !.dataSession = session, !.threw = TRUE]
         ELSE IF ObjectKeys(session).value = {}
         THEN [NoResult EXCEPT !.credential = token, !.session = session,
                   !.dataSession = session,
                   !.emits = <<error(channelName, RoomOrSocket(room, conn),
                                     Unauthorized)>>]
         ELSE Dispatched(token, session, session,
                         invoke(channelName, conn, room, event, beh))
    ELSE Dispatched(token, sock.session, Undefined,
                    invoke(channelName, conn, room, event, beh))

\* if (tokenRequired && this.settings?.secret) { ... } try { ... }
Gate(token, session, s, channelName, conn, sock, room, event, tokenRequired, beh) ==
    IF tokenRequired /\ TruthyStr(s.secret)
    THEN IF ObjectKeys(session).threw
         THEN \* Object.keys(undefined): a TypeError, outside the try block
              [NoResult EXCEPT !.credential = token, !.session = sock.session,
                               !.threw = TRUE]
         ELSE IF ObjectKeys(session).value = {}
         THEN [NoResult EXCEPT !.credential = token, !.session = sock.session,
                   !.emits = <<error(channelName, RoomOrSocket(room, conn),
                                     Unauthorized)>>]
         ELSE Dispatched(token, session, session,
                         invoke(channelName, conn, room, event, beh))
    ELSE Dispatched(token, sock.session, Undefined,
                    invoke(channelName, conn, room, event, beh))

\* const token = this.authorization || data?.params?.authorization || ''
TokenOf(auth, params) ==
    IF Truthy(auth) THEN auth
    ELSE IF Truthy(params.authorization) THEN params.authorization
    ELSE <<>>

Verified(token, s, channelName, conn, sock, room, event, tokenRequired, beh) ==
    Gate(token, validToken(s.secret, token), s, channelName, conn, sock, room, event,
         tokenRequired, beh)

\* SocketServer.handleEvent
handleEvent(auth, s, channelName, conn, sock, params, event, tokenRequired, beh) ==
    Verified(TokenOf(auth, params), s, channelName, conn, sock, params.room, event,
             tokenRequired, beh)

-----------------------------------------------------------------------------
(* The gateway: middleware, the connection handler and the channel listener *)

Bearer(jwt) == <<"Bearer", " ", jwt>>

\* What a client can put in handshake.auth.authorization (setOpt: `Bearer ${token}`).
HandshakeCredentials == {<<>>, Bearer("jwt.good"), Bearer("jwt.forged")}

\* What a client can put in params.authorization (emit: `Bearer ${token}`).
Credentials == HandshakeCredentials \cup {Bearer("jwt.empty")}

\* What a client can put in handshake.auth['x-api-key'].
HandshakeKeys == {"", ApiKey, "wrong-key"}

NoParams == [authorization |-> <<>>, room |-> ""]

\* The payload of a channel event: absent, or { data, params } with params optional.
Payloads ==
    {[present |-> FALSE, hasParams |-> FALSE, params |-> NoParams],
     [present |-> TRUE, hasParams |-> FALSE, params |-> NoParams]}
    \cup {[present |-> TRUE, hasParams |-> TRUE, params |-> p] :
              p \in [authorization : Credentials, room : Rooms] \ {NoParams}}

NoSocket == [up |-> FALSE, handshake |-> <<>>, session |-> Undefined]

NoBehaviour == Behaviour(<<>>, "none", FALSE)

NoStep == [kind |-> "none", conn |-> "", apikey |-> "", accepted |-> FALSE,
           room |-> "",
           channel |-> <<>>, present |-> FALSE, params |-> NoParams,
           stored |-> Undefined, behaviour |-> NoBehaviour, result |-> NoResult]

\* SocketServer.middleware: stores the handshake's authorization in the server
\* instance's field, then checks the API key.
middleware(s, auth, apikey, cred) ==
    [authorization |-> cred,
     accepted |-> ~(TruthyStr(s.apikey) /\ ~validApiKey(apikey, s.apikey))]

\* socket.on(name, ({ data: body, params }) => this.handleEvent(name, socket,
\*     { body, params: params || {}, session: undefined }, config.onEvent, ...))
onChannelEvent(auth, s, chs, key, conn, sock, payload, beh) ==
    IF ~payload.present
    THEN [NoResult EXCEPT !.session = sock.session, !.threw = TRUE]
    ELSE handleEvent(auth, s, key, conn, sock,
                     IF payload.hasParams THEN payload.params ELSE NoParams,
                     chs[key].onEvent, chs[key].tokenRequired, beh)

-----------------------------------------------------------------------------
(* Rooms: this.rooms, and the rooms of the transport (socket.join/leave) *)

RoomNames == {"room1", "room2"}

\* this.rooms = new Map()
EmptyIndex == [r \in {} |-> {}]

\* listeners on every channel, whatever its roomSupport
allRoomListeners(config) == TRUE

\* if (config.roomSupport) { socket.on(`${name}:join`, ...); socket.on(`${name}:leave`, ...) }
hasRoomListeners(config) == config.roomSupport

\* SocketServer.handleRoomJoin, on this.rooms
handleRoomJoin(idx, conn, room) ==
    [r \in DOMAIN idx \cup {room} |->
        IF r = room
        THEN (IF room \in DOMAIN idx THEN idx[room] ELSE {}) \cup {conn}
        ELSE idx[r]]

\* a leave that keeps the key of a room it has emptied
handleRoomLeaveKeepKey(idx, conn, room) ==
    IF room \in DOMAIN idx THEN [idx EXCEPT ![room] = @ \ {conn}] ELSE idx

\* SocketServer.handleRoomLeave, on this.rooms
handleRoomLeave(idx, conn, room) ==
    IF room \in DOMAIN idx
    THEN IF idx[room] \ {conn} = {}
         THEN [r \in DOMAIN idx \ {room} |-> idx[r]]
         ELSE [idx EXCEPT ![room] = @ \ {conn}]
    ELSE idx

\* io.to(room).emit reaches the sockets the transport holds in the room;
\* socket.emit reaches that socket.
Recipients(e) ==
    IF e.to.kind = "socket"
    THEN {e.to.id}
    ELSE {c \in Conns : e.to.id \in joined[c]}

-----------------------------------------------------------------------------
(* Setup code *)

Get == "get/products"

Post == "post/products"

H(i) == HandlerById(i)

\* usecases/server.ts and the README: channel(name, handler) first.
UsecasesScript ==
    <<Call("channel", Get, H("getProducts"), <<>>),
      Call("customChannel", Post, H("postProducts"), <<>>)>>

Settings(apikey, secret) == [apikey |-> apikey, secret |-> secret, roomsEnabled |-> TRUE]

App(s, calls) == [settings |-> s, script |-> calls]

\* The applications: the settings given to the constructor and the setup code.
Applications ==
    {App(Settings(ApiKey, Secret), UsecasesScript),
     App(Settings(ApiKey, Secret),
         <<Call("customChannel", Get, H("getProducts"), <<ArgBool(FALSE)>>)>>),
     App(Settings("", Secret),
         <<Call("customChannel", Get, H("handler3"), <<ArgBool(FALSE)>>),
           Call("customChannel", Get, H("getProducts"), <<ArgBool(TRUE)>>)>>),
     App(Settings("", Secret),
         <<Call("customChannel", Post, H("handler3"), <<ArgBool(TRUE), ArgBool(TRUE)>>)>>),
     App(Settings(ApiKey, Secret),
         <<Call("channel", Post, H("webPush4"), <<ArgBool(TRUE), ArgBool(TRUE), ArgPush>>)>>)}
    \cup {App(Settings(k, x),
              <<Call("customChannel", Post, H("postProducts"), <<ArgBool(TRUE)>>)>>) :
              k \in {"", ApiKey}, x \in {"", Secret}}

-----------------------------------------------------------------------------
(* Actions *)

SettingsSet ==
    [apikey : {"", ApiKey}, secret : {"", Secret}, roomsEnabled : BOOLEAN]

ZeroMetrics == [successful |-> 0, failed |-> 0, retried |-> 0]

NoPushCall == [kind |-> "none", id |-> "", state |-> "none"]

MapStep(op, key) == [op |-> op, key |-> key]

\* new ExpiringMap(timeout), before any call
MapIdle ==
    /\ emap = <<>>
    /\ now = 0
    /\ timers = <<>>
    /\ swept = {}
    /\ mlast = MapStep("none", "")

NoClientCall == [kind |-> "none"]

\* no connection() call yet, no socket with listeners, nothing received
StreamIdle ==
    /\ nconnection = 0
    /\ attached = [c \in {"A", "B"} |-> 0]
    /\ arrivals = 0
    /\ inbox = [c \in {"A", "B"} |-> <<>>]
    /\ started = <<>>

\* new SocketClient(url), before any call
ClientIdle ==
    /\ listeners = {}
    /\ clast = NoClientCall

NoValidation == [kind |-> "none"]

\* new WebPushLemur(settings), before any call
PushIdle ==
    /\ subs = <<>>
    /\ metrics = ZeroMetrics
    /\ tasks = <<>>
    /\ pcall = NoPushCall
    /\ psettings = [retries |-> 0]
    /\ vcall = NoValidation

InitCommon ==
    /\ channels = EmptyRegistry
    /\ phase = "setup"
    /\ nreg = 0
    /\ lastReg = NoReg
    /\ authorization = <<>>
    /\ sockets = [c \in Conns |-> NoSocket]
    /\ last = NoStep
    /\ rooms = EmptyIndex
    /\ joined = [c \in Conns |-> {}]
    /\ via = {}

\* new SocketServer(settings), with the setup code still to run
Init ==
    /\ \E app \in Applications :
          /\ settings = app.settings
          /\ script = app.script
    /\ InitCommon
    /\ MapIdle
    /\ ClientIdle
    /\ StreamIdle
    /\ PushIdle

\* The next registration call of the setup code.  An exception it raises is
\* not caught by the setup code: the process ends.
Setup ==
    /\ phase = "setup"
    /\ script # <<>>
    /\ LET call == Head(script)
           r == Register(channels, settings, call)
       IN  /\ channels' = r.channels
           /\ lastReg' = [call |-> call, threw |-> r.threw]
           /\ phase' = IF r.threw THEN "crashed" ELSE "setup"
    /\ script' = Tail(script)
    /\ nreg' = nreg + 1
    /\ UNCHANGED <<settings, authorization, sockets, last>>
    /\ UNCHANGED <<roomVars, mapVars, pushVars, clientVars, streamVars>>

\* server.listen(PORT); server.connection(opts)
Connection ==
    /\ phase = "setup"
    /\ script = <<>>
    /\ phase' = "serving"
    /\ UNCHANGED <<settings, channels, script, nreg, lastReg, authorization, sockets, last>>
    /\ UNCHANGED <<roomVars, mapVars, pushVars, clientVars, streamVars>>

\* A client connects: the middleware runs, and for an accepted connection the
\* 'connection' handler attaches the listeners of every registered channel.
Connect(c, apikey, cred) ==
    /\ phase = "serving"
    /\ last.kind = "none"
    /\ ~sockets[c].up
    \* a connection id names one socket: it is not given to a new socket
    \* while this.rooms still holds the old one
    /\ \A r \in DOMAIN rooms : c \notin rooms[r]
    /\ LET m == middleware(settings, authorization, apikey, cred)
       IN  /\ authorization' = m.authorization
           /\ sockets' = IF m.accepted
                         THEN [sockets EXCEPT ![c] = [up |-> TRUE, handshake |-> cred,
                                                      session |-> Undefined]]
                         ELSE sockets
           /\ last' = [NoStep EXCEPT !.kind = "connect", !.conn = c, !.apikey = apikey,
                                     !.accepted = m.accepted]
    /\ UNCHANGED <<settings, channels, phase, script, nreg, lastReg>>
    /\ UNCHANGED <<roomVars, mapVars, pushVars, clientVars, streamVars>>

\* The client's connection ends: the 'disconnect' listener runs opts.off.
Disconnect(c) ==
    /\ phase = "serving"
    /\ last.kind = "none"
    /\ sockets[c].up
    /\ sockets' = [sockets EXCEPT ![c] = NoSocket]
    /\ last' = [NoStep EXCEPT !.kind = "disconnect", !.conn = c]
    /\ joined' = [joined EXCEPT ![c] = {}]
    /\ via' = {j \in via : j[1] # c}
    /\ UNCHANGED <<settings, channels, phase, script, nreg, lastReg, authorization>>
    /\ UNCHANGED <<rooms, mapVars, pushVars, clientVars, streamVars>>

\* The handler's behaviour is an input of a step only if the step calls it.
ReachesHandler(c, key, payload) ==
    onChannelEvent(authorization, settings, channels, key, c, sockets[c], payload,
                   NoBehaviour).shape \in {"custom", "simple"}

\* What the listener's run `r` leaves behind: socket.session, and the record of
\* the dispatch.
Delivered(c, key, payload, beh, r) ==
    /\ sockets' = [sockets EXCEPT ![c].session = r.session]
    /\ last' = [NoStep EXCEPT
                   !.kind = "dispatch", !.conn = c, !.channel = key,
                   !.present = payload.present,
                   !.params = IF payload.hasParams THEN payload.params ELSE NoParams,
                   !.stored = sockets[c].session,
                   !.behaviour = beh,
                   !.result = r]

\* A connected client sends an event on a registered channel: the listener
\* attached for that channel runs handleEvent, and the handler runs.
ChannelEvent(c, key, payload, beh) ==
    /\ phase = "serving"
    /\ last.kind = "none"
    /\ sockets[c].up
    /\ key \in DOMAIN channels
    /\ beh \in IF ReachesHandler(c, key, payload)
               THEN BehavioursOf(channels[key].onEvent)
               ELSE {NoBehaviour}
    /\ Delivered(c, key, payload, beh,
                 onChannelEvent(authorization, settings, channels, key, c, sockets[c],
                                payload, beh))
    /\ UNCHANGED <<settings, channels, phase, script, nreg, lastReg, authorization>>
    /\ UNCHANGED <<roomVars, mapVars, pushVars, clientVars, streamVars>>

\* A connected client sends `<channel>:join` with a room.  The listener exists
\* only on a channel with room support; without one the event is dropped.
Join(c, key, room) ==
    /\ phase = "serving"
    /\ last.kind = "none"
    /\ sockets[c].up
    /\ key \in DOMAIN channels
    /\ IF hasRoomListeners(channels[key])
       THEN /\ joined' = [joined EXCEPT ![c] = @ \cup {room}]
            /\ rooms' = handleRoomJoin(rooms, c, room)
            /\ via' = via \cup {<<c, key, room>>}
       ELSE UNCHANGED <<rooms, joined, via>>
    /\ last' = [NoStep EXCEPT !.kind = "join", !.conn = c, !.channel = key,
                              !.room = room]
    /\ UNCHANGED <<settings, channels, phase, script, nreg, lastReg, authorization,
                   sockets, mapVars, pushVars, clientVars, streamVars>>

\* A connected client sends `<channel>:leave` with a room.
Leave(c, key, room) ==
    /\ phase = "serving"
    /\ last.kind = "none"
    /\ sockets[c].up
    /\ key \in DOMAIN channels
    /\ IF hasRoomListeners(channels[key])
       THEN /\ joined' = [joined EXCEPT ![c] = @ \ {room}]
            /\ rooms' = handleRoomLeave(rooms, c, room)
            /\ via' = via \ {<<c, key, room>>}
       ELSE UNCHANGED <<rooms, joined, via>>
    /\ last' = [NoStep EXCEPT !.kind = "leave", !.conn = c, !.channel = key,
                              !.room = room]
    /\ UNCHANGED <<settings, channels, phase, script, nreg, lastReg, authorization,
                   sockets, mapVars, pushVars, clientVars, streamVars>>

\* The callback has run to completion: control is back in the event loop.
Idle ==
    /\ last.kind # "none"
    /\ last' = NoStep
    /\ UNCHANGED <<settings, channels, phase, script, nreg, lastReg, authorization, sockets>>
    /\ UNCHANGED <<roomVars, mapVars, pushVars, clientVars, streamVars>>

Next ==
    \/ Setup
    \/ Connection
    \/ \E c \in Conns, k \in HandshakeKeys, a \in HandshakeCredentials : Connect(c, k, a)
    \/ \E c \in Conns : Disconnect(c)
    \/ \E c \in Conns, key \in DOMAIN channels, p \in Payloads,
           b \in Behaviours \cup {NoBehaviour} :
          ChannelEvent(c, key, p, b)
    \/ Idle

Spec == Init /\ [][Next]_vars

-----------------------------------------------------------------------------
(* Rooms: a server with two channels that support rooms and one that does  *)
(* not, and clients that join, leave, send and disconnect.                 *)

Notify == "notify"

RoomsScript ==
    <<Call("customChannel", Get, H("postProducts"), <<ArgBool(FALSE), ArgBool(TRUE)>>),
      Call("customChannel", Post, H("postProducts"), <<ArgBool(FALSE), ArgBool(TRUE)>>),
      Call("customChannel", Notify, H("postProducts"), <<ArgBool(FALSE), ArgBool(FALSE)>>)>>

InitRooms ==
    /\ settings = Settings("", "")
    /\ script = RoomsScript
    /\ InitCommon
    /\ MapIdle
    /\ ClientIdle
    /\ StreamIdle
    /\ PushIdle

\* the events sent here carry no credential: no channel asks for one
RoomPayloads == {p \in Payloads : p.present /\ p.params.authorization = <<>>}

NextRooms ==
    \/ Setup
    \/ Connection
    \/ \E c \in Conns : Connect(c, "", <<>>)
    \/ \E c \in Conns : Disconnect(c)
    \/ \E c \in Conns, key \in DOMAIN channels, r \in RoomNames : Join(c, key, r)
    \/ \E c \in Conns, key \in DOMAIN channels, r \in RoomNames : Leave(c, key, r)
    \/ \E c \in Conns, key \in DOMAIN channels, p \in RoomPayloads,
           b \in Behaviours \cup {NoBehaviour} :
          ChannelEvent(c, key, p, b)
    \/ Idle

SpecRooms == InitRooms /\ [][NextRooms]_vars

-----------------------------------------------------------------------------
(* The stream of one connection: the events a socket receives are given to *)
(* the listeners attached for it in the order they were received.  The     *)
(* listener calls handleEvent, which checks the token and calls the        *)
(* handler before it returns.                                              *)

\* the events that arrive at the server in one run
MaxEvents == 3

\* the calls of connection() in one run
MaxConnectionCalls == 2

StreamScript ==
    <<Call("customChannel", Get, H("getProducts"), <<ArgBool(FALSE)>>),
      Call("customChannel", Post, H("postProducts"), <<ArgBool(TRUE)>>)>>

\* what the clients of this section send
StreamPayloads ==
    {p \in Payloads : /\ p.present
                      /\ p.params.room = ""
                      /\ p.params.authorization \in {<<>>, Bearer("jwt.good")}}

InitStream ==
    /\ settings = Settings("", Secret)
    /\ script = StreamScript
    /\ InitCommon
    /\ MapIdle
    /\ ClientIdle
    /\ StreamIdle
    /\ PushIdle

\* server.connection(opts): this.io.use(this.middleware).on('connection', ...)
\* adds one more 'connection' listener to the server, at every call.
connection ==
    /\ phase \in {"setup", "serving"}
    /\ script = <<>>
    /\ nconnection < MaxConnectionCalls
    /\ nconnection' = nconnection + 1
    /\ phase' = "serving"
    /\ UNCHANGED <<settings, channels, script, nreg, lastReg, authorization, sockets, last>>
    /\ UNCHANGED <<attached, arrivals, inbox, started>>
    /\ UNCHANGED <<roomVars, mapVars, pushVars, clientVars>>

\* A client connects: every 'connection' listener added so far runs for the
\* socket, and each one attaches a listener for every registered channel.
Attach(c) ==
    /\ phase = "serving"
    /\ ~sockets[c].up
    /\ LET m == middleware(settings, authorization, "", <<>>)
       IN  /\ m.accepted
           /\ authorization' = m.authorization
           /\ sockets' = [sockets EXCEPT ![c] = [up |-> TRUE, handshake |-> <<>>,
                                                 session |-> Undefined]]
    /\ attached' = [attached EXCEPT ![c] = nconnection]
    /\ UNCHANGED <<settings, channels, phase, script, nreg, lastReg, last>>
    /\ UNCHANGED <<nconnection, arrivals, inbox, started>>
    /\ UNCHANGED <<roomVars, mapVars, pushVars, clientVars>>

\* An event of a connected client reaches the server on the client's connection.
Arrive(c, key, payload) ==
    /\ phase = "serving"
    /\ sockets[c].up
    /\ key \in DOMAIN channels
    /\ arrivals < MaxEvents
    /\ arrivals' = arrivals + 1
    /\ inbox' = [inbox EXCEPT ![c] = Append(@, [stamp |-> arrivals + 1, key |-> key,
                                                payload |-> payload])]
    /\ UNCHANGED <<serverVars, nconnection, attached, started>>
    /\ UNCHANGED <<roomVars, mapVars, pushVars, clientVars>>

\* a transport that gave the listeners the event received last
takeNewest(q) == [event |-> q[Len(q)], rest |-> SubSeq(q, 1, Len(q) - 1)]

\* The transport gives the events of a connection to the listeners one at a
\* time, the one received first before the others.
takeNext(q) == [event |-> Head(q), rest |-> Tail(q)]

\* if (tokenRequired && this.settings?.secret) { session = this.validToken(...) }
ChecksToken(s, config) == config.tokenRequired /\ TruthyStr(s.secret)

\* What the `n` listeners attached to a socket for a channel do with one event,
\* one listener after the other: each runs handleEvent to its return.
RECURSIVE RunListeners(_, _, _, _, _, _, _, _)
RunListeners(n, auth, s, chs, key, conn, sock, e) ==
    IF n = 0
    THEN [sock |-> sock, began |-> <<>>]
    ELSE LET r == onChannelEvent(auth, s, chs, key, conn, sock, e.payload, e.beh)
             check == IF ChecksToken(s, chs[key])
                      THEN <<[conn |-> conn, stamp |-> e.stamp, channel |-> key,
                              what |-> "check"]>>
                      ELSE <<>>
             handler == IF r.shape \in {"custom", "simple"}
                        THEN <<[conn |-> conn, stamp |-> e.stamp, channel |-> key,
                                what |-> "handler"]>>
                        ELSE <<>>
             others == RunListeners(n - 1, auth, s, chs, key, conn,
                                    [sock EXCEPT !.session = r.session], e)
         IN  [sock |-> others.sock, began |-> check \o handler \o others.began]

\* The socket of connection c emits its next event: the listeners attached
\* for the event's channel run.
Listen(c, beh) ==
    /\ phase = "serving"
    /\ sockets[c].up
    /\ inbox[c] # <<>>
    /\ LET next == takeNext(inbox[c])
           e == next.event
           run == RunListeners(attached[c], authorization, settings, channels, e.key,
                               c, sockets[c],
                               [stamp |-> e.stamp, payload |-> e.payload, beh |-> beh])
       IN  /\ beh \in IF ReachesHandler(c, e.key, e.payload)
                      THEN BehavioursOf(channels[e.key].onEvent)
                      ELSE {NoBehaviour}
           /\ inbox' = [inbox EXCEPT ![c] = next.rest]
           /\ started' = started \o run.began
           /\ sockets' = [sockets EXCEPT ![c] = run.sock]
    /\ UNCHANGED <<settings, channels, phase, script, nreg, lastReg, authorization, last>>
    /\ UNCHANGED <<nconnection, attached, arrivals>>
    /\ UNCHANGED <<roomVars, mapVars, pushVars, clientVars>>

NextStream ==
    \/ Setup
    \/ connection
    \/ \E c \in Conns : Attach(c)
    \/ \E c \in Conns, key \in DOMAIN channels, p \in StreamPayloads : Arrive(c, key, p)
    \/ \E c \in Conns, b \in Behaviours \cup {NoBehaviour} : Listen(c, b)

SpecStream == InitStream /\ [][NextStream]_vars

-----------------------------------------------------------------------------
(* Registration alone: any calls of channel() and customChannel(), in any  *)
(* order, by a caller that goes on after a call that raised.               *)

InitReg ==
    /\ settings \in {s \in SettingsSet : s.apikey = "" /\ s.secret = ""}
    /\ script = <<>>
    /\ InitCommon
    /\ MapIdle
    /\ ClientIdle
    /\ StreamIdle
    /\ PushIdle

Registered(method, name, onEvent, args) ==
    /\ phase = "setup"
    /\ nreg < MaxRegistrations
    /\ LET call == Call(method, name, onEvent, args)
           r == Register(channels, settings, call)
       IN  /\ channels' = r.channels
           /\ lastReg' = [call |-> call, threw |-> r.threw]
    /\ nreg' = nreg + 1
    /\ UNCHANGED <<settings, phase, script, authorization, sockets, last>>
    /\ UNCHANGED <<roomVars, mapVars, pushVars, clientVars, streamVars>>

\* the functions the registration calls are made with
RegisteredHandlers == {H("getProducts"), H("postProducts")}

Channel ==
    \E n \in ChannelNames, h \in RegisteredHandlers, args \in ArgShapes :
        Registered("channel", n, h, args)

CustomChannel ==
    \E n \in ChannelNames, h \in RegisteredHandlers, args \in ArgShapes :
        Registered("customChannel", n, h, args)

NextReg == Channel \/ CustomChannel

SpecReg == InitReg /\ [][NextReg]_vars

-----------------------------------------------------------------------------
(* ExpiringMap: the room index of the server version that expires rooms *)

\* this.timeout, in ticks of the clock
Timeout == 2

\* the clock stops here
MaxTime == 5

\* the number of pending cleanup callbacks
MaxTimers == 3

MapKeys == {"room1", "room2"}

\* the items stored: member sets, empty or not
MapItems == {{}, {"A"}}

\* an entry expires when its age reaches the timeout
expiredAtTimeout(t, timestamp, timeout) == t - timestamp >= timeout

\* now - room.timestamp > this.timeout
expired(t, timestamp, timeout) == t - timestamp > timeout

\* the body of the setTimeout callback of startCleanup
cleanup(m, t, timeout) ==
    [k \in {x \in DOMAIN m : ~expired(t, m[x].timestamp, timeout)} |-> m[k]]

\* ExpiringMap.set: stores the entry with the current time and starts a cleanup.
\* Calls are made while the cleanup they start is due before the clock stops.
MapSet(k, item) ==
    /\ Len(timers) < MaxTimers
    /\ now + Timeout <= MaxTime
    /\ emap' = [x \in DOMAIN emap \cup {k} |->
                   IF x = k THEN [item |-> item, timestamp |-> now] ELSE emap[x]]
    /\ timers' = Append(timers, now + Timeout)
    /\ mlast' = MapStep("set", k)
    /\ UNCHANGED <<now, swept, serverVars, roomVars, pushVars, clientVars, streamVars>>

\* a get that returns the item and leaves the timestamp as it was
MapGetNoRefresh(k) ==
    /\ k \in DOMAIN emap
    /\ mlast' = MapStep("get", k)
    /\ UNCHANGED <<emap, now, timers, swept, serverVars, roomVars, pushVars, clientVars, streamVars>>

\* ExpiringMap.get of a stored key: the entry's timestamp becomes the current time
MapGet(k) ==
    /\ k \in DOMAIN emap
    /\ emap' = [emap EXCEPT ![k].timestamp = now]
    /\ mlast' = MapStep("get", k)
    /\ UNCHANGED <<now, timers, swept, serverVars, roomVars, pushVars, clientVars, streamVars>>

\* ExpiringMap.delete
MapDelete(k) ==
    /\ k \in DOMAIN emap
    /\ emap' = [x \in DOMAIN emap \ {k} |-> emap[x]]
    /\ mlast' = MapStep("delete", k)
    /\ UNCHANGED <<now, timers, swept, serverVars, roomVars, pushVars, clientVars, streamVars>>

\* time passes
Tick ==
    /\ now < MaxTime
    /\ now' = now + 1
    /\ mlast' = MapStep("tick", "")
    /\ UNCHANGED <<emap, timers, swept, serverVars, roomVars, pushVars, clientVars, streamVars>>

\* The setTimeout callback of startCleanup that is due first runs, at its due
\* time or later (callbacks set with the same delay run in the order they were
\* scheduled).
Sweep ==
    /\ timers # <<>>
    /\ now >= Head(timers)
    /\ emap' = cleanup(emap, now, Timeout)
    /\ swept' = {[key |-> k, item |-> emap[k].item, age |-> now - emap[k].timestamp] :
                    k \in DOMAIN emap \ DOMAIN cleanup(emap, now, Timeout)}
    /\ timers' = Tail(timers)
    /\ mlast' = MapStep("sweep", "")
    /\ UNCHANGED <<now, serverVars, roomVars, pushVars, clientVars, streamVars>>

InitMap ==
    /\ settings = Settings("", "")
    /\ script = <<>>
    /\ InitCommon
    /\ MapIdle
    /\ ClientIdle
    /\ StreamIdle
    /\ PushIdle

NextMap ==
    \/ \E k \in MapKeys, item \in MapItems : MapSet(k, item)
    \/ \E k \in MapKeys : MapGet(k)
    \/ \E k \in MapKeys : MapDelete(k)
    \/ Tick
    \/ Sweep

SpecMap == InitMap /\ [][NextMap]_vars

\* Time passes and a callback that is due runs: the event loop is not blocked.
SpecMapFair == SpecMap /\ WF_vars(Tick) /\ WF_vars(Sweep)

-----------------------------------------------------------------------------
(* WebPushLemur: send, retrySend, sendNotificationToOne, sendNotificationToAll, *)
(* over PushLocalMemory and MetricsLocalMemory.  A running send is a chain of   *)
(* frames: the frame in its catch block awaits retrySend, which awaits a new    *)
(* call of send.                                                                *)

\* the number of nested frames counted; a chain deeper than this stays counted here
MaxNesting == 5

SubIds == {"s1", "s2", "s3"}

\* How the push service answers for an endpoint: "ok" delivers, "gone" answers
\* 410, "down" fails with another error every time, "flaky" fails once with
\* another error and then delivers, "flaky2" fails twice and then delivers.
Endpoints == {"ok", "gone", "down", "flaky", "flaky2"}

\* A subscription record: its endpoint, whether it has keys.auth, and whether it
\* carries an `id` property of its own.
Record(endpoint, hasAuth, hasId) ==
    [endpoint |-> endpoint, hasAuth |-> hasAuth, hasId |-> hasId]

\* The records an application stores with add(id, subscription).
StoredRecords ==
    {Record(e, TRUE, FALSE) : e \in Endpoints}
    \cup {Record("ok", FALSE, FALSE), Record("gone", TRUE, TRUE)}

\* this.settings?.retrySend?.retries || 3
Retries(ps) == IF ps.retries # 0 THEN ps.retries ELSE 3

\* webPush.sendNotification for the endpoint, after `calls` earlier calls
Transport(endpoint, calls) ==
    CASE endpoint = "ok"    -> "ok"
      [] endpoint = "gone"  -> "gone"
      [] endpoint = "down"  -> "other"
      [] endpoint = "flaky" -> IF calls = 0 THEN "other" ELSE "ok"
      [] endpoint = "flaky2" -> IF calls < 2 THEN "other" ELSE "ok"

\* What typeof and truthiness tell of a field: a missing one, one of another
\* type (a number other than 0), the empty string, a non-empty string.
FieldKinds == {"undefined", "number", "empty", "string"}

\* subscription.keys: missing, or an object
KeysKinds == {"undefined", "object"}

\* A subscription by its fields: { endpoint, keys: { p256dh, auth } }.
Subscription(endpoint, keys, p256dh, auth) ==
    [endpoint |-> endpoint, keys |-> keys, p256dh |-> p256dh, auth |-> auth]

\* the subscriptions an application can pass to send
Subscriptions ==
    {Subscription(e, k, p, a) :
        e \in FieldKinds, k \in KeysKinds, p \in FieldKinds, a \in FieldKinds}

\* !value
Falsy(kind) == kind \in {"undefined", "empty"}

\* typeof value !== "string"
NotString(kind) == kind \in {"undefined", "number"}

\* WebPushLemur.validateSubscription on the fields: TRUE when it does not throw
validate(sub) ==
    /\ ~(Falsy(sub.endpoint) \/ NotString(sub.endpoint))
    /\ ~(sub.keys = "undefined" \/ NotString(sub.p256dh) \/ NotString(sub.auth))

\* the fields of a stored record: all there, but for keys.auth when it has none
FieldsOf(rec) ==
    Subscription("string", "object", "string",
                 IF rec.hasAuth THEN "string" ELSE "undefined")

\* WebPushLemur.validateSubscription: TRUE when it does not throw
validateSubscription(rec) == validate(FieldsOf(rec))

\* PushLocalMemory.all: every stored record with its id put in
all(store) == [i \in DOMAIN store |-> [store[i] EXCEPT !.hasId = TRUE]]

\* PushLocalMemory.delete(id); the id is undefined ("") when the record has none
memoryDelete(store, id) == [i \in DOMAIN store \ {id} |-> store[i]]

\* subscription[key], key = "id"
KeyOf(id, rec) == IF rec.hasId THEN id ELSE ""

\* an increment that writes back 1 when it finds the counter already raised
incrementStale(m, metric) == [m EXCEPT ![metric] = IF @ = 0 THEN 1 ELSE @]

\* MetricsLocalMemory.increment: this.metrics[metric]++, with no await in it
increment(m, metric) == [m EXCEPT ![metric] = @ + 1]

\* a call of send(subscription) about to start; `resaved` notes that another
\* record was saved under the id while the call was under way
NewTask(rec) ==
    [rec |-> rec, pc |-> "try", err |-> "none", depth |-> 0, calls |-> 0,
     resaved |-> FALSE]

Deeper(n) == IF n < MaxNesting THEN n + 1 ELSE n

\* the stores an application can have built with add(id, subscription)
Stores == UNION {[ids -> StoredRecords] : ids \in SUBSET SubIds}

NoTasks == [i \in {} |-> NewTask(Record("ok", TRUE, FALSE))]

PushCall(kind, id, state) == [kind |-> kind, id |-> id, state |-> state]

\* send(subscription) called by the application with a record it holds for
\* the id: the stored one, or the one all() / getSubscriptions() returned
SendCall(id, rec) ==
    /\ pcall.kind = "none"
    /\ id \in DOMAIN subs
    /\ rec \in {subs[id], all(subs)[id]}
    /\ tasks' = [i \in {id} |-> NewTask(rec)]
    /\ pcall' = PushCall("send", id, "running")
    /\ UNCHANGED <<subs, metrics, psettings, vcall>>
    /\ UNCHANGED <<serverVars, roomVars, mapVars, clientVars, streamVars>>

\* a sendNotificationToOne that counts a missing subscription as a failure
sendNotificationToOneCounted(id) ==
    /\ pcall.kind = "none"
    /\ IF id \in DOMAIN subs
          THEN /\ tasks' = [i \in {id} |-> NewTask(subs[id])]
               /\ pcall' = PushCall("toOne", id, "running")
               /\ UNCHANGED metrics
          ELSE /\ tasks' = NoTasks
               /\ pcall' = PushCall("toOne", id, "done")
               /\ metrics' = increment(metrics, "failed")
    /\ UNCHANGED <<subs, psettings, vcall>>
    /\ UNCHANGED <<serverVars, roomVars, mapVars, clientVars, streamVars>>

sendNotificationToOne(id) ==
    /\ pcall.kind = "none"
    /\ IF id \in DOMAIN subs
          THEN /\ tasks' = [i \in {id} |-> NewTask(subs[id])]
               /\ pcall' = PushCall("toOne", id, "running")
          ELSE /\ tasks' = NoTasks
               /\ pcall' = PushCall("toOne", id, "done")
    /\ UNCHANGED <<subs, metrics, psettings, vcall>>
    /\ UNCHANGED <<serverVars, roomVars, mapVars, clientVars, streamVars>>

sendNotificationToAll ==
    /\ pcall.kind = "none"
    /\ tasks' = [i \in DOMAIN subs |-> NewTask(all(subs)[i])]
    /\ pcall' = PushCall("toAll", "", "running")
    /\ UNCHANGED <<subs, metrics, psettings, vcall>>
    /\ UNCHANGED <<serverVars, roomVars, mapVars, clientVars, streamVars>>

\* the try block of send: validateSubscription, webPush.sendNotification,
\* increment('successful')
send(i) ==
    /\ i \in DOMAIN tasks
    /\ tasks[i].pc = "try"
    /\ LET t == tasks[i]
           answer == Transport(t.rec.endpoint, t.calls)
       IN  IF ~validateSubscription(t.rec)
              THEN /\ tasks' = [tasks EXCEPT ![i].pc = "catch", ![i].err = "other"]
                   /\ UNCHANGED metrics
              ELSE IF answer = "ok"
                      THEN /\ tasks' = [tasks EXCEPT ![i].pc = "return",
                                                     ![i].calls = Deeper(t.calls)]
                           /\ metrics' = increment(metrics, "successful")
                      ELSE /\ tasks' = [tasks EXCEPT ![i].pc = "catch",
                                                     ![i].err = answer,
                                                     ![i].calls = Deeper(t.calls)]
                           /\ UNCHANGED metrics
    /\ UNCHANGED <<subs, pcall, psettings, vcall>>
    /\ UNCHANGED <<serverVars, roomVars, mapVars, clientVars, streamVars>>

\* the catch block of send up to its await: delete(subscription[key]) and
\* increment('failed') for a 410, else retrySend, whose first attempt
\* (attempt = 1 <= retries) calls send
sendCatch(i) ==
    /\ i \in DOMAIN tasks
    /\ tasks[i].pc = "catch"
    /\ LET t == tasks[i]
       IN  IF t.err = "gone"
              THEN /\ subs' = memoryDelete(subs, KeyOf(i, t.rec))
                   /\ metrics' = increment(metrics, "failed")
                   /\ tasks' = [tasks EXCEPT ![i].pc = "return", ![i].err = "none"]
              ELSE /\ 1 <= Retries(psettings)
                   /\ tasks' = [tasks EXCEPT ![i].pc = "try",
                                             ![i].err = "none",
                                             ![i].depth = Deeper(t.depth)]
                   /\ UNCHANGED <<subs, metrics>>
    /\ UNCHANGED <<pcall, psettings, vcall>>
    /\ UNCHANGED <<serverVars, roomVars, mapVars, clientVars, streamVars>>

\* send returns: to the caller when it is the first frame, else into retrySend,
\* which does increment('retried') and returns into the catch block of the frame
\* before, which does increment('failed') and returns in its turn
sendReturn(i) ==
    /\ i \in DOMAIN tasks
    /\ tasks[i].pc = "return"
    /\ LET t == tasks[i]
       IN  IF t.depth = 0
              THEN /\ tasks' = [tasks EXCEPT ![i].pc = "done"]
                   /\ UNCHANGED metrics
              ELSE /\ tasks' = [tasks EXCEPT ![i].depth = t.depth - 1]
                   /\ metrics' = increment(increment(metrics, "retried"), "failed")
    /\ UNCHANGED <<subs, pcall, psettings, vcall>>
    /\ UNCHANGED <<serverVars, roomVars, mapVars, clientVars, streamVars>>

\* the promise of the top-level call resolves (Promise.allSettled for
\* sendNotificationToAll)
Settled ==
    /\ pcall.state = "running"
    /\ \A i \in DOMAIN tasks : tasks[i].pc = "done"
    /\ pcall' = [pcall EXCEPT !.state = "done"]
    /\ UNCHANGED <<subs, metrics, tasks, psettings, vcall>>
    /\ UNCHANGED <<serverVars, roomVars, mapVars, clientVars, streamVars>>

RetrySettings == {[retries |-> 0], [retries |-> 1]}

\* send(subscription, payload) up to its first await: validateSubscription,
\* JSON.stringify, and the call of webPush.sendNotification if nothing threw
SendFields(sub) ==
    /\ vcall.kind = "none"
    /\ vcall' = [kind |-> "send", sub |-> sub, sent |-> validate(sub)]
    /\ UNCHANGED <<subs, metrics, tasks, pcall, psettings>>
    /\ UNCHANGED <<serverVars, roomVars, mapVars, clientVars, streamVars>>

\* that send is over; the next one can be made
SendFieldsOver ==
    /\ vcall.kind # "none"
    /\ vcall' = NoValidation
    /\ UNCHANGED <<subs, metrics, tasks, pcall, psettings>>
    /\ UNCHANGED <<serverVars, roomVars, mapVars, clientVars, streamVars>>

\* new WebPushLemur(settings) with nothing stored, and an idle server and client
InitValidate ==
    /\ InitCommon
    /\ settings = Settings("", "")
    /\ script = <<>>
    /\ MapIdle
    /\ ClientIdle
    /\ StreamIdle
    /\ PushIdle

NextValidate ==
    \/ \E sub \in Subscriptions : SendFields(sub)
    \/ SendFieldsOver

SpecValidate == InitValidate /\ [][NextValidate]_vars

InitPush ==
    /\ InitCommon
    /\ settings = Settings("", "")
    /\ script = <<>>
    /\ MapIdle
    /\ ClientIdle
    /\ StreamIdle
    /\ subs \in Stores
    /\ metrics = ZeroMetrics
    /\ tasks = NoTasks
    /\ pcall = NoPushCall
    /\ psettings \in RetrySettings
    /\ vcall = NoValidation

Step(i) == send(i) \/ sendCatch(i) \/ sendReturn(i)

TopLevelCall ==
    \/ \E i \in DOMAIN subs : \E rec \in {subs[i], all(subs)[i]} : SendCall(i, rec)
    \/ \E i \in SubIds : sendNotificationToOne(i)
    \/ sendNotificationToAll

NextPush ==
    \/ TopLevelCall
    \/ \E i \in SubIds : Step(i)
    \/ Settled

SpecPush == InitPush /\ [][NextPush]_vars

\* the event loop runs every callback that is ready
SpecPushFair ==
    /\ SpecPush
    /\ \A i \in SubIds : WF_vars(Step(i))
    /\ WF_vars(Settled)

\* PushLocalMemory.save(subscription, id): this.subscriptions.set(id, subscription)
memorySave(store, id, rec) ==
    [i \in DOMAIN store \cup {id} |-> IF i = id THEN rec ELSE store[i]]

\* add(id, subscription), made by the application at any moment: also while
\* a send for the id is under way
Add(id, rec) ==
    /\ subs' = memorySave(subs, id, rec)
    /\ tasks' = IF id \in DOMAIN tasks /\ tasks[id].pc # "done"
                   /\ rec.endpoint # tasks[id].rec.endpoint
                THEN [tasks EXCEPT ![id].resaved = TRUE]
                ELSE tasks
    /\ UNCHANGED <<metrics, pcall, psettings, vcall>>
    /\ UNCHANGED <<serverVars, roomVars, mapVars, clientVars, streamVars>>

\* the subscribers whose subscriptions are renewed
SavedIds == {"s1", "s2"}

\* the records they register: a live endpoint, an expired one, one that fails once
SavedRecords == {Record(e, TRUE, FALSE) : e \in {"ok", "gone", "flaky"}}

\* new WebPushLemur(settings, memory) with one subscription per subscriber
InitSave ==
    /\ InitCommon
    /\ settings = Settings("", "")
    /\ script = <<>>
    /\ MapIdle
    /\ ClientIdle
    /\ StreamIdle
    /\ subs \in [SavedIds -> SavedRecords]
    /\ metrics = ZeroMetrics
    /\ tasks = NoTasks
    /\ pcall = NoPushCall
    /\ psettings = [retries |-> 0]
    /\ vcall = NoValidation

NextSave ==
    \/ NextPush
    \/ \E i \in SavedIds, rec \in SavedRecords : Add(i, rec)

SpecSave == InitSave /\ [][NextSave]_vars

-----------------------------------------------------------------------------
(* SocketClient: the browser client of the server above *)

\* const eventName = `${name}:push-notifiation` of SocketClient.serviceWorker
serviceWorkerEventName(name) == <<name, ":push-notifiation">>

\* A JavaScript object of the client: a function from its keys to its values;
\* a value is a sequence of string pieces.
EmptyObj == [k \in {} |-> <<>>]

Put(o, k, v) == [x \in DOMAIN o \cup {k} |-> IF x = k THEN v ELSE o[x]]

\* Object.assign(o, p)
ObjectAssign(o, p) == [x \in DOMAIN o \cup DOMAIN p |-> IF x \in DOMAIN p THEN p[x] ELSE o[x]]

\* The `data` argument of emit: undefined, or an object with or without
\* `params`, with or without `data`, and with the other fields `extra`.
LemurData(defined, extra, hasParams, params, hasData, data) ==
    [defined |-> defined, extra |-> extra, hasParams |-> hasParams, params |-> params,
     hasData |-> hasData, data |-> data]

Item == Put(EmptyObj, "id", <<"1">>)

DataArgs ==
    {LemurData(FALSE, {}, FALSE, EmptyObj, FALSE, EmptyObj),
     LemurData(TRUE, {"key"}, FALSE, EmptyObj, FALSE, EmptyObj),
     LemurData(TRUE, {}, FALSE, EmptyObj, TRUE, Item),
     LemurData(TRUE, {}, TRUE, Put(EmptyObj, "page", <<"2">>), TRUE, Item),
     LemurData(TRUE, {}, TRUE,
               Put(Put(EmptyObj, "authorization", <<"Bearer", " ", "old">>),
                   "room", <<"lobby">>),
               TRUE, Item)}

ClientTokens == {"", "jwt.good"}

ClientRooms == {"", "room1"}

EventNames == {<<Get>>, serviceWorkerEventName(Get)}

SocketEvent(name, payload) == [name |-> name, payload |-> payload]

\* an emit that sends the bare token
emitBareToken(name, data, token, room) ==
    LET params == IF data.defined /\ data.hasParams THEN data.params ELSE EmptyObj
        body == IF data.defined /\ data.hasData THEN data.data ELSE EmptyObj
        withToken == IF TruthyStr(token) THEN Put(params, "authorization", <<token>>)
                     ELSE params
        withRoom == IF TruthyStr(room) THEN Put(withToken, "room", <<room>>) ELSE withToken
    IN  <<SocketEvent(name, [params |-> withRoom, data |-> body])>>

\* SocketClient.emit: the socket.emit calls it makes
emit(name, data, token, room) ==
    LET params == IF data.defined /\ data.hasParams THEN data.params ELSE EmptyObj
        body == IF data.defined /\ data.hasData THEN data.data ELSE EmptyObj
        withToken == IF TruthyStr(token) THEN Put(params, "authorization", Bearer(token))
                     ELSE params
        withRoom == IF TruthyStr(room) THEN Put(withToken, "room", <<room>>) ELSE withToken
    IN  <<SocketEvent(name, [params |-> withRoom, data |-> body])>>

Emit(name, data, token, room) ==
    /\ clast.kind = "none"
    /\ clast' = [kind |-> "emit", name |-> name, data |-> data, token |-> token,
                 room |-> room, emitted |-> emit(name, data, token, room)]
    /\ UNCHANGED listeners
    /\ UNCHANGED <<serverVars, roomVars, mapVars, pushVars, streamVars>>

\* LemurOpts: the callbacks of a channel, its room and its successChannel
\* ("" where the field is absent)
LemurOpts(room, successChannel, onSuccess, onError) ==
    [room |-> room, successChannel |-> successChannel, onSuccess |-> onSuccess,
     onError |-> onError]

OptsArgs ==
    {LemurOpts(r, sc, "showProducts", e) :
        r \in ClientRooms, sc \in {"", "orders"}, e \in {"", "showError"}}

\* `${channel}:join`, `${channel}:success`, `${channel}:error`
Suffixed(chan, suffix) == chan \o <<suffix>>

\* the event that carries the success of a channel used with these opts
SuccessEvent(chan, opts) ==
    IF TruthyStr(opts.successChannel) THEN <<opts.successChannel, ":success">>
    ELSE Suffixed(chan, ":success")

\* SocketClient.on: the socket.emit calls it makes and the listeners it leaves
on(ls, chan, opts) ==
    [emitted |-> IF TruthyStr(opts.room)
                 THEN <<SocketEvent(Suffixed(chan, ":join"), <<opts.room>>)>>
                 ELSE <<>>,
     listeners |-> ls \cup {<<SuccessEvent(chan, opts), opts.onSuccess>>,
                            <<Suffixed(chan, ":error"),
                              IF TruthyStr(opts.onError) THEN opts.onError
                              ELSE "console.error">>}]

\* the events whose listeners SocketClient.off removes; socket.off(event)
\* without a listener removes every listener of the event
offEvents(chan, opts) ==
    (IF TruthyStr(opts.room) THEN {Suffixed(chan, ":join")} ELSE {})
    \cup {SuccessEvent(chan, opts), Suffixed(chan, ":error")}

\* an off that always takes the success listeners off `${channel}:success`
offOwnSuccess(ls, chan, opts) ==
    {l \in ls : l[1] \notin {Suffixed(chan, ":join"), Suffixed(chan, ":success"),
                             Suffixed(chan, ":error")}}

\* SocketClient.off: the listeners it leaves
off(ls, chan, opts) == {l \in ls : l[1] \notin offEvents(chan, opts)}

On(chan, opts) ==
    /\ clast.kind = "none"
    /\ listeners' = on(listeners, chan, opts).listeners
    /\ clast' = [kind |-> "on", name |-> chan, opts |-> opts,
                 emitted |-> on(listeners, chan, opts).emitted]
    /\ UNCHANGED <<serverVars, roomVars, mapVars, pushVars, streamVars>>

Off(chan, opts) ==
    /\ clast.kind = "none"
    /\ listeners' = off(listeners, chan, opts)
    /\ clast' = [kind |-> "off", name |-> chan, opts |-> opts, emitted |-> <<>>]
    /\ UNCHANGED <<serverVars, roomVars, mapVars, pushVars, streamVars>>

\* the application adds a listener of its own: getSocket().on(event, listener)
SocketOn(event) ==
    /\ clast.kind = "none"
    /\ listeners' = listeners \cup {<<event, "appListener">>}
    /\ clast' = [kind |-> "socket.on", name |-> event, emitted |-> <<>>]
    /\ UNCHANGED <<serverVars, roomVars, mapVars, pushVars, streamVars>>

\* LemurSecurity, the argument of setOpt: which of token, apiKey, auth and
\* transformOptions it has, their values, whether its `auth` key comes before
\* or after the other keys (Object.entries goes in insertion order), and
\* whether it has a socket.io option (reconnection) besides.
LemurSecurity(defined, token, apiKey, auth, authFirst, transform, reconnection) ==
    [defined |-> defined, token |-> token, apiKey |-> apiKey, auth |-> auth,
     authFirst |-> authFirst, transform |-> transform, reconnection |-> reconnection]

\* an optional field: absent, or present with a value
Absent == [given |-> FALSE, value |-> <<>>]

Given(v) == [given |-> TRUE, value |-> v]

OwnAuth == Put(EmptyObj, "tenant", <<"acme">>)

\* What a transformOptions function gives back for the auth object it gets:
\*   "none"    no transformOptions in the security object
\*   "fields"  ({...auth, customField: 'value'})
\*   "header"  ({authorization: 'custom'})
\*   "null"    null            "string"  a string
\*   "nothing" undefined       "throws"  it raises an exception
Transforms == {"none", "fields", "header", "null", "string", "nothing", "throws"}

transformOptions(transform, auth) ==
    CASE transform = "fields" -> Put(auth, "customField", <<"value">>)
      [] transform = "header" -> Put(EmptyObj, "authorization", <<"custom">>)
      [] OTHER -> EmptyObj

\* typeof transformedOptions === 'object', which null satisfies too
TypeofObject(transform) == transform \in {"fields", "header", "null"}

SecurityArgs ==
    {LemurSecurity(FALSE, Absent, Absent, Absent, FALSE, "none", FALSE)}
    \cup {LemurSecurity(TRUE, t, k, a, f, x, r) :
            t \in {Absent, Given(<<"abc123">>)},
            k \in {Absent, Given(<<"my-api-key">>)},
            a \in {Absent, Given(OwnAuth)},
            f \in BOOLEAN, x \in Transforms, r \in BOOLEAN}

\* the cases 'token' and 'apiKey' of the loop over Object.entries(security)
Credentials2(auth, sec) ==
    LET withToken == IF sec.token.given
                     THEN Put(auth, "authorization", <<"Bearer", " ">> \o sec.token.value)
                     ELSE auth
    IN  IF sec.apiKey.given THEN Put(withToken, "x-api-key", sec.apiKey.value)
        ELSE withToken

\* the try block around transformOptions: Object.assign(opts.auth, result) when
\* the result is an object, else the error is caught and logged
Transformed(auth, sec) ==
    IF sec.transform # "none" /\ TypeofObject(sec.transform)
    THEN ObjectAssign(auth, transformOptions(sec.transform, auth))
    ELSE auth

\* SocketClient.setOpt: the options it returns.  The default case of the loop
\* copies every other key of the security object to the options, `auth` among
\* them, which replaces the auth object built so far.
setOpt(sec) ==
    IF ~sec.defined
    THEN [auth |-> EmptyObj, autoConnect |-> FALSE, others |-> {}, logged |-> FALSE,
          threw |-> FALSE]
    ELSE [auth |-> IF ~sec.auth.given THEN Credentials2(Transformed(EmptyObj, sec), sec)
                   ELSE IF sec.authFirst THEN Credentials2(sec.auth.value, sec)
                   ELSE sec.auth.value,
          autoConnect |-> FALSE,
          others |-> (IF sec.transform # "none" THEN {"transformOptions"} ELSE {})
                     \cup (IF sec.reconnection THEN {"reconnection"} ELSE {}),
          logged |-> sec.transform # "none" /\ ~TypeofObject(sec.transform),
          threw |-> FALSE]

SetOpt(sec) ==
    /\ clast.kind = "none"
    /\ clast' = [kind |-> "setOpt", security |-> sec, emitted |-> <<>>,
                 result |-> setOpt(sec)]
    /\ UNCHANGED listeners
    /\ UNCHANGED <<serverVars, roomVars, mapVars, pushVars, streamVars>>

\* the call has returned; the next one can be made
Returned ==
    /\ clast.kind # "none"
    /\ clast' = NoClientCall
    /\ UNCHANGED listeners
    /\ UNCHANGED <<serverVars, roomVars, mapVars, pushVars, streamVars>>

\* new SocketClient(url), and an idle server, room index and push manager
InitClient ==
    /\ InitCommon
    /\ settings = Settings("", "")
    /\ script = <<>>
    /\ MapIdle
    /\ ClientIdle
    /\ StreamIdle
    /\ PushIdle

ListenedEvents == {Suffixed(<<Get>>, ":success"), <<"orders", ":success">>}

NextClient ==
    \/ \E name \in EventNames, data \in DataArgs, token \in ClientTokens,
          room \in ClientRooms : Emit(name, data, token, room)
    \/ \E chan \in EventNames, opts \in OptsArgs : On(chan, opts)
    \/ \E chan \in EventNames, opts \in OptsArgs : Off(chan, opts)
    \/ \E event \in ListenedEvents : SocketOn(event)
    \/ \E sec \in SecurityArgs : SetOpt(sec)
    \/ Returned

SpecClient == InitClient /\ [][NextClient]_vars

-----------------------------------------------------------------------------
(* Properties.  They read the record `last` of the callback that has just   *)
(* run, and `lastReg` of the latest registration call.                      *)

IsDispatch == last.kind = "dispatch"

\* the registry entry of the channel the event came in on
Config == channels[last.channel]

\* the handler was called
HandlerInvoked == last.result.shape \in {"custom", "simple"}

\* the events of the dispatch whose name is `<channel><suffix>`
Named(suffix) ==
    SelectSeq(last.result.emits, LAMBDA e : e.event = last.channel \o <<suffix>>)

\* the one event `<channel>:error` with payload { error: text }
OnlyError(text) ==
    /\ Len(last.result.emits) = 1
    /\ last.result.emits[1].event = last.channel \o <<":error">>
    /\ last.result.emits[1].payload = [tag |-> "error", val |-> text]

\* the credential is absent, malformed or not signed with the configured secret
FailsVerification(cred) == JwtVerify(StripBearer(cred), settings.secret).threw

\* an event with a payload on a channel registered with tokenRequired = true
TokenRequiredEvent == IsDispatch /\ last.present /\ Config.tokenRequired

\* C1: an event on a tokenRequired channel whose credential is absent, malformed
\* or fails signature verification never reaches the handler and is answered by
\* exactly one `<channel>:error` event carrying the Unauthorized message.
\* (Stated for a server that has a secret; C2 is the server without one.)
C1_InvalidCredentialRejected ==
    TokenRequiredEvent /\ TruthyStr(settings.secret)
        /\ FailsVerification(last.result.credential)
    => ~HandlerInvoked /\ OnlyError(Unauthorized)

\* C1, the case in the code: no credential at all, and the listener ends in a
\* TypeError with nothing emitted.
C1_NoCredentialThrows ==
    /\ TokenRequiredEvent /\ TruthyStr(settings.secret)
    /\ last.result.credential = <<>>
    /\ last.result.threw
    /\ last.result.emits = <<>>

\* C2: on a tokenRequired channel of a server that has no signing secret, every
\* event is rejected: the handler is not invoked and one Unauthorized error event
\* goes to the room, if one is given, or else to the client.
C2_NoSecretRejectsAll ==
    TokenRequiredEvent /\ ~TruthyStr(settings.secret)
    => /\ ~HandlerInvoked
       /\ last.result.emits =
              <<error(last.channel, RoomOrSocket(last.params.room, last.conn),
                      Unauthorized)>>

\* C2, the case in the code: no secret, no credential, and the handler runs.
C2_NoSecretHandlerRuns ==
    /\ TokenRequiredEvent /\ ~TruthyStr(settings.secret)
    /\ last.result.credential = <<>>
    /\ HandlerInvoked

\* C3: the credential checked for an event on a connection is that connection's
\* own handshake authorization when it supplied one, and otherwise the event's
\* params.authorization, whatever other connections and connection attempts did.
C3_OwnCredentialChecked ==
    TokenRequiredEvent /\ TruthyStr(settings.secret)
    => last.result.credential =
           TokenOf(sockets[last.conn].handshake, last.params)

\* C3, the case in the code: a connection that gave no credential in its handshake
\* sends an event without one, and is authorized with another client's token.
C3_AuthorizedByAnotherHandshake ==
    /\ TokenRequiredEvent /\ TruthyStr(settings.secret)
    /\ sockets[last.conn].handshake = <<>>
    /\ last.params.authorization = <<>>
    /\ last.result.credential = Bearer("jwt.good")
    /\ HandlerInvoked
    /\ last.result.dataSession = UserSession

\* What the handler did with its parameters during the dispatch: the events of
\* the calls it made, as it was called (socket-context object and onError).
CallbackEvents ==
    CallHandler(last.behaviour, last.result.shape, last.channel, last.conn,
                last.params.room).emits

\* the handler call threw synchronously (it is not an async function)
ThrewSynchronously == last.result.handlerError.is /\ ~last.behaviour.async

\* the handler only ever calls its 2nd and 3rd parameters as functions
UsesCallbacksOnly ==
    \A i \in 1..Len(last.behaviour.ops) : last.behaviour.ops[i] \in {"second", "third"}

C5_SessionPersists ==
    TokenRequiredEvent /\ TruthyStr(settings.secret)
    => /\ ~FailsVerification(last.result.credential)
          /\ JwtPayload(StripBearer(last.result.credential)[1]) = UserSession
          => /\ last.result.dataSession = UserSession
             /\ sockets[last.conn].session = UserSession
       /\ last.result.credential = <<>> /\ last.stored # Undefined
          => /\ ~last.result.threw
             /\ last.result.shape # "none"
             /\ last.result.dataSession = last.stored

\* C5, the case in the code: the connection holds a session from an earlier event,
\* the next event has no credential, and the listener ends in a TypeError.
C5_StoredSessionIgnored ==
    /\ TokenRequiredEvent /\ TruthyStr(settings.secret)
    /\ last.stored = UserSession
    /\ last.result.credential = <<>>
    /\ last.result.threw
    /\ ~HandlerInvoked

\* a push manager is among the arguments of the call
HasPushArg(args) == \E i \in 1..Len(args) : args[i].type = "WebPushLemur"

\* C6: the entry stored under a channel name is the one of the first call that
\* stored it: a later channel() or customChannel() call for a name that is
\* already stored leaves the registry unchanged and raises no error.
\* (Stated for calls without a push manager, whose key is the name itself.)
C6_LaterCallIsNoOp ==
    [][ /\ nreg' = nreg + 1
        /\ ~HasPushArg(lastReg'.call.args)
        /\ <<lastReg'.call.name>> \in DOMAIN channels
        => channels' = channels /\ ~lastReg'.threw ]_vars

\* C6, the case in the code: the name is already stored, and a later call with
\* fewer than three arguments raises a TypeError.
C6_LaterCallThrows ==
    /\ lastReg.call.method = "channel"
    /\ Len(lastReg.call.args) < 3
    /\ <<lastReg.call.name>> \in DOMAIN channels
    /\ lastReg.threw

\* C7: when the handler throws synchronously or its asynchronous result rejects,
\* the dispatch emits one `<channel>:error` whose payload is { error: m }, m the
\* message of what was thrown or the thrown value itself.
C7_HandlerFailureBecomesError ==
    IsDispatch /\ HandlerInvoked /\ last.result.handlerError.is
    => Len(SelectSeq(Named(":error"),
                     LAMBDA e : e.payload =
                         [tag |-> "error",
                          val |-> ErrorText(last.result.handlerError)])) = 1

\* C7, the case in the code: an async handler throws, the promise it returned
\* rejects, and no error event is emitted.
C7_RejectionNotReported ==
    /\ IsDispatch /\ HandlerInvoked
    /\ last.behaviour = Behaviour(<<>>, "throw", TRUE)
    /\ last.result.rejected
    /\ Named(":error") = <<>>

\* C8: whatever the message (no payload, no data or params, an invalid token)
\* and whatever the handler does, the channel listener returns normally.
C8_ListenerReturnsNormally ==
    IsDispatch => ~last.result.threw

\* C8, the case in the code: a message without a payload, and the listener's
\* parameter destructuring raises a TypeError.
C8_NoPayloadThrows ==
    /\ IsDispatch
    /\ ~last.present
    /\ last.result.threw
    /\ last.result.emits = <<>>

\* the key is the configured one, or none is configured
KeyMatches(apikey) == ~TruthyStr(settings.apikey) \/ apikey = settings.apikey

\* C9: with an API key configured, a connection attempt whose x-api-key is not
\* exactly that key is rejected and never gets a socket with listeners, so no
\* event of it is ever dispatched; without a configured key every attempt is
\* accepted.  A socket comes to exist only through an accepted attempt.
C9_ApiKeyGate ==
    [][ \A c \in Conns :
          /\ last'.kind = "connect" /\ last.kind = "none" /\ last'.conn = c
             => /\ last'.accepted <=> KeyMatches(last'.apikey)
                /\ sockets'[c].up <=> last'.accepted
          /\ ~sockets[c].up /\ sockets'[c].up
             => /\ last'.kind = "connect" /\ last'.conn = c
                /\ KeyMatches(last'.apikey)
          /\ last'.kind = "dispatch" /\ last.kind = "none" /\ last'.conn = c
             => sockets[c].up ]_vars

\* C9, the case: a key is configured, the attempt carries another one and is
\* rejected, and the client has no socket.
C9_WrongKeyRejected ==
    /\ last.kind = "connect"
    /\ settings.apikey = ApiKey
    /\ last.apikey = "wrong-key"
    /\ ~last.accepted
    /\ ~sockets[last.conn].up

\* C10: end to end, the usage example's channel(name, handler) registers
\* "get/products", and an event without a room on a channel that needs no token
\* and whose handler passes the list to its response callback is answered by
\* exactly one `<channel>:success` to that client carrying the list, and no error.
C10_ListDelivered ==
    /\ lastReg.call = Call("channel", Get, H("getProducts"), <<>>) => ~lastReg.threw
    /\ IsDispatch /\ last.present /\ ~Config.tokenRequired
          /\ Config.onEvent = H("getProducts") /\ last.params.room = ""
       => last.result.emits =
              <<success(last.channel, ToSocket(last.conn), Products)>>

\* C10, the case in the code: the handler declares two parameters, the dispatcher
\* does not call it, and the client gets `<channel>:error` "Unknown event type!".
C10_UnknownEventType ==
    /\ IsDispatch /\ last.present /\ ~Config.tokenRequired
    /\ Config.onEvent = H("getProducts")
    /\ ~HandlerInvoked
    /\ Named(":success") = <<>>
    /\ OnlyError(UnknownEventType)

\* C11: every `<channel>:success` and `<channel>:error` event of a dispatch
\* (handler error, caught exception, unknown handler shape, unauthorized) is
\* broadcast to the room of the request's params when one is supplied, and is
\* otherwise sent to the originating client and to no one else.
C11_RoomElseClient ==
    IsDispatch
    => \A i \in 1..Len(last.result.emits) :
          LET e == last.result.emits[i]
          IN  e.event \in {last.channel \o <<":success">>, last.channel \o <<":error">>}
              => IF last.params.room # ""
                 THEN e.to = [kind |-> "room", id |-> last.params.room]
                 ELSE e.to = [kind |-> "socket", id |-> last.conn]

\* C11, the case: a request with a room whose handler throws, and the error
\* event is broadcast to the room.
C11_ErrorToRoom ==
    /\ IsDispatch /\ HandlerInvoked
    /\ last.params.room = "room1"
    /\ ThrewSynchronously
    /\ Named(":error") # <<>>
    /\ Named(":error")[1].to = [kind |-> "room", id |-> "room1"]

\* the members of a room in this.rooms
Members(room) == IF room \in DOMAIN rooms THEN rooms[room] ELSE {}

\* C12: rooms are per channel: a join of r through channel c1 that was not undone
\* through c1 is still in effect whatever is left through another channel c2,
\* and a broadcast addressed to room r of channel c2 reaches only the
\* connections that joined r through c2.
C12_RoomsPerChannel ==
    /\ \A j \in via : j[1] \in Members(j[3]) /\ j[3] \in joined[j[1]]
    /\ IsDispatch
       => \A i \in 1..Len(last.result.emits) :
             LET e == last.result.emits[i]
             IN  e.to.kind = "room"
                 => Recipients(e) \subseteq
                        {c \in Conns : <<c, last.channel, e.to.id>> \in via}

\* C12, the case in the code: a connection joined room1 through one channel,
\* leaves room1 through the other, and is no longer in the room it joined.
C12_LeftThroughOtherChannel ==
    /\ last.kind = "leave"
    /\ last.channel = <<Post>>
    /\ <<last.conn, <<Get>>, last.room>> \in via
    /\ last.conn \notin Members(last.room)
    /\ last.room \notin joined[last.conn]

\* C13: `X:join` and `X:leave` of a channel X registered with roomSupport = false
\* change neither this.rooms nor any connection's rooms; on a channel with
\* roomSupport = true a join makes the connection a member and a leave ends it.
C13_RoomSupportGatesJoinLeave ==
    [][ last.kind = "none" /\ last'.kind \in {"join", "leave"}
        => IF ~channels[last'.channel].roomSupport
           THEN rooms' = rooms /\ joined' = joined
           ELSE IF last'.kind = "join"
           THEN /\ last'.room \in DOMAIN rooms'
                /\ last'.conn \in rooms'[last'.room]
                /\ last'.room \in joined'[last'.conn]
           ELSE /\ last'.room \in DOMAIN rooms' => last'.conn \notin rooms'[last'.room]
                /\ last'.room \notin joined'[last'.conn] ]_vars

\* C13, the case: a join sent on the channel without room support, and the
\* sender is in no room.
C13_JoinWithoutRoomSupport ==
    /\ last.kind = "join"
    /\ ~channels[last.channel].roomSupport
    /\ last.conn \notin Members(last.room)
    /\ joined[last.conn] = {}
    /\ rooms # EmptyIndex

\* C14: once a connection has disconnected it is a member of no room of
\* this.rooms, and no room is left there without a member.
C14_DisconnectLeavesRooms ==
    last.kind = "disconnect"
    => \A r \in DOMAIN rooms : last.conn \notin rooms[r] /\ rooms[r] # {}

\* C14, the case in the code: the connection was the only member of a room,
\* it disconnects, and the room entry still holds it.
C14_StaleMember ==
    /\ last.kind = "disconnect"
    /\ \E r \in DOMAIN rooms : rooms[r] = {last.conn}

\* C15: a cleanup of the map removes every entry whose timestamp is older than
\* the timeout, whether or not its member set is empty, and keeps every other
\* entry as it is.
C15_SweepRemovesExpiredOnly ==
    [][ Len(timers') < Len(timers)
        => \A k \in DOMAIN emap :
              IF now - emap[k].timestamp > Timeout
              THEN k \notin DOMAIN emap'
              ELSE k \in DOMAIN emap' /\ emap'[k] = emap[k] ]_vars

\* C15, the case: a cleanup deleted an entry with a member in it and kept
\* another entry, whose age is exactly the timeout.
C15_NonEmptyRoomSwept ==
    /\ \E e \in swept : e.item # {} /\ e.age > Timeout
    /\ \E k \in DOMAIN emap : now - emap[k].timestamp = Timeout

\* ---- the push engine ----

\* the chain of the top-level send or sendNotificationToOne call
Chain == tasks[pcall.id]

Running(kinds) == pcall.kind \in kinds /\ pcall.id \in DOMAIN tasks

\* C16: send with a record that lacks keys.auth makes no transport call and
\* completes with `failed` raised by exactly one and `successful` unchanged.
\* Stated as: such a call leads to its completion with these counts.
C16_InvalidRecordCountedOnce ==
    (Running({"send"}) /\ ~Chain.rec.hasAuth)
        ~> (/\ Running({"send"})
            /\ pcall.state = "done"
            /\ Chain.calls = 0
            /\ metrics.failed = 1
            /\ metrics.successful = 0)

\* C16: the invalid record is validated again and again, frame inside frame,
\* with nothing sent and nothing counted.
C16_ValidationRepeats ==
    /\ Running({"send"})
    /\ ~Chain.rec.hasAuth
    /\ pcall.state = "running"
    /\ Chain.depth = MaxNesting
    /\ Chain.calls = 0
    /\ metrics = ZeroMetrics

\* C17: within one top-level send whose transport call fails every time with an
\* error other than 410, the transport is called at most 1 + N times, N the
\* configured number of retries (3 when none is configured).
C17_TransportCallsBounded ==
    (Running({"send"}) /\ Chain.rec.hasAuth /\ Chain.rec.endpoint = "down")
        => Chain.calls <= 1 + Retries(psettings)

\* C17: with the default settings (N = 3) the same send has called the
\* transport a fifth time.
C17_ExtraTransportCall ==
    /\ Running({"send"})
    /\ Chain.rec.hasAuth
    /\ Chain.rec.endpoint = "down"
    /\ psettings.retries = 0
    /\ Chain.calls = Retries(psettings) + 2

\* C18: every send, sendNotificationToOne and sendNotificationToAll call
\* eventually completes, whatever the transport answers.
C18_EveryCallCompletes ==
    (pcall.kind \in {"send", "toOne", "toAll"}) ~> (pcall.state = "done")

\* C18: a sendNotificationToAll call in which every chain but one has ended
\* and the last one, to an endpoint that is down, is MaxNesting frames deep.
C18_OneChainStillRunning ==
    /\ pcall.kind = "toAll"
    /\ pcall.state = "running"
    /\ \E i \in DOMAIN tasks :
          /\ tasks[i].rec.endpoint = "down"
          /\ tasks[i].depth = MaxNesting
          /\ tasks[i].pc = "catch"
          /\ \A j \in DOMAIN tasks \ {i} : tasks[j].pc = "done"
          /\ DOMAIN tasks # {i}

\* C19: when a delivery fails with status 410, the subscription sent to is
\* absent from the store once the call has returned and no retry was made for
\* it, whichever of send, sendNotificationToOne, sendNotificationToAll made it.
C19_GoneSubscriptionRemoved ==
    \A i \in DOMAIN tasks :
        (pcall.state = "done" /\ tasks[i].rec.hasAuth /\ tasks[i].rec.endpoint = "gone")
            => (/\ i \notin DOMAIN subs
                /\ tasks[i].calls = 1
                /\ tasks[i].depth = 0)

\* C19: sendNotificationToOne has returned after its one delivery failed with
\* 410, and the subscription is still stored under its id.
C19_GoneButStillStored ==
    /\ Running({"toOne"})
    /\ pcall.state = "done"
    /\ Chain.rec.endpoint = "gone"
    /\ Chain.calls = 1
    /\ metrics.failed = 1
    /\ pcall.id \in DOMAIN subs

\* the subscriptions of the call whose every delivery succeeds
Delivering == {j \in DOMAIN tasks : tasks[j].rec.hasAuth /\ tasks[j].rec.endpoint = "ok"}

\* sendNotificationToAll over k >= 1 delivering subscriptions and one valid
\* subscription whose delivery fails with an error other than 410, on the first
\* attempt only or on every attempt
OneTransientFailure ==
    /\ pcall.kind = "toAll"
    /\ Delivering # {}
    /\ \E i \in DOMAIN tasks :
          /\ DOMAIN tasks = Delivering \cup {i}
          /\ tasks[i].rec.hasAuth
          /\ tasks[i].rec.endpoint \in {"flaky", "down"}

\* C20: in sendNotificationToAll every subscription gets its own attempt and
\* its own counted outcome: with k subscriptions that deliver and one that
\* fails transiently the call ends with successful = k and failed = 1.
C20_IndependentOutcomes ==
    OneTransientFailure
        ~> (/\ OneTransientFailure
            /\ pcall.state = "done"
            /\ metrics.successful = Cardinality(Delivering)
            /\ metrics.failed = 1)

\* C20: the call has ended over two delivering subscriptions and one that
\* failed once: three successes are counted, with one failure and one retry.
C20_RetriedSuccessCountedToo ==
    /\ OneTransientFailure
    /\ pcall.state = "done"
    /\ Cardinality(Delivering) = 2
    /\ metrics = [successful |-> 3, failed |-> 1, retried |-> 1]

\* C21: sendNotificationToOne for an id that is not stored reports the error
\* and stops: the call is over at once with no send started (so no transport
\* call and no retry), and the metrics and the store are as they were, then
\* and ever after.
C21_MissingSubscriptionStops ==
    /\ [][(pcall.kind = "none" /\ pcall'.kind = "toOne" /\ pcall'.id \notin DOMAIN subs)
             => (/\ pcall'.state = "done"
                 /\ tasks' = NoTasks
                 /\ metrics' = metrics
                 /\ subs' = subs)]_vars
    /\ [][(pcall.kind = "toOne" /\ pcall.id \notin DOMAIN tasks)
             => UNCHANGED <<subs, metrics, tasks, pcall>>]_vars

\* C21: the call for the missing id "s3" is over, with two other
\* subscriptions stored and nothing counted.
C21_MissingIdReported ==
    /\ pcall = PushCall("toOne", "s3", "done")
    /\ DOMAIN subs = {"s1", "s2"}
    /\ tasks = NoTasks
    /\ metrics = ZeroMetrics

\* ---- the push-qualified channel name ----

\* C22: a registration with a delivery engine is stored under the key
\* `X:push-notification` exactly.
C22_PushKeyQualified ==
    \A k \in DOMAIN channels :
        channels[k].pushManager # NoPush => k = <<k[1], ":push-notification">>

\* C22: the plain and the push variant of one name are both registered, each
\* with its own handler, the push variant under the key the client's push
\* channel emits on, which is spelled `X:push-notifiation`.
C22_BothVariantsMisspelledKey ==
    \E name \in ChannelNames :
        /\ <<name>> \in DOMAIN channels
        /\ serviceWorkerEventName(name) \in DOMAIN channels
        /\ channels[serviceWorkerEventName(name)].pushManager = PushManager
        /\ channels[<<name>>].pushManager = NoPush
        /\ channels[<<name>>].onEvent # channels[serviceWorkerEventName(name)].onEvent
        /\ serviceWorkerEventName(name) # <<name, ":push-notification">>

\* ---- the client ----

IsClientCall(kind) == clast.kind = kind

\* the top-level fields of the `data` argument of the latest emit
FieldsOfData ==
    IF ~clast.data.defined THEN {}
    ELSE clast.data.extra
         \cup (IF clast.data.hasParams THEN {"params"} ELSE {})
         \cup (IF clast.data.hasData THEN {"data"} ELSE {})

\* the params the caller gave to the latest emit
ParamsOfData ==
    IF clast.data.defined /\ clast.data.hasParams THEN clast.data.params ELSE EmptyObj

ErrorListener(opts) == IF opts.onError # "" THEN opts.onError ELSE "console.error"

\* the event on which on() puts opts.onSuccess
SuccessEventOf(chan, opts) ==
    IF opts.successChannel # "" THEN <<opts.successChannel, ":success">>
    ELSE chan \o <<":success">>

\* C24, as the code has it: on(channel, opts) emits `channel:join` with
\* opts.room when a room is given and nothing otherwise, registers
\* opts.onSuccess on `channel:success`, or on `<successChannel>:success` when
\* opts.successChannel is given, and opts.onError (console.error when none is
\* given) on `channel:error`; off(channel, opts) removes every listener of
\* that success event and of `channel:error` (and of `channel:join` when a
\* room is given) and no other, so that after on() followed by off() with the
\* same opts no listener registered by on() remains.
C24_OnRegistersOffRemoves ==
    [][/\ clast'.kind = "on" =>
            /\ clast'.emitted =
                   (IF clast'.opts.room # ""
                    THEN <<SocketEvent(clast'.name \o <<":join">>, <<clast'.opts.room>>)>>
                    ELSE <<>>)
            /\ listeners' = listeners
                   \cup {<<SuccessEventOf(clast'.name, clast'.opts), clast'.opts.onSuccess>>,
                         <<clast'.name \o <<":error">>, ErrorListener(clast'.opts)>>}
       /\ clast'.kind = "off" =>
            /\ clast'.emitted = <<>>
            /\ listeners' \subseteq listeners
            /\ \A l \in listeners :
                  l \in listeners' <=>
                     /\ l[1] # SuccessEventOf(clast'.name, clast'.opts)
                     /\ l[1] # clast'.name \o <<":error">>
                     /\ (clast'.opts.room # "" => l[1] # clast'.name \o <<":join">>)
            /\ on({}, clast'.name, clast'.opts).listeners \cap listeners' = {}
      ]_vars

\* C24: on() with successChannel 'orders' has put the success callback on
\* `orders:success` and nothing on `<channel>:success`.
C24_SuccessOnOtherChannel ==
    /\ IsClientCall("on")
    /\ clast.opts.successChannel = "orders"
    /\ <<<<"orders", ":success">>, clast.opts.onSuccess>> \in listeners
    /\ \A l \in listeners : l[1] # clast.name \o <<":success">>

\* C24, as stated: on(channel, opts) registers opts.onSuccess on
\* `channel:success` and opts.onError on `channel:error`.
C24_SuccessOnOwnChannel ==
    [][clast'.kind = "on" =>
          /\ <<clast'.name \o <<":success">>, clast'.opts.onSuccess>> \in listeners'
          /\ (clast'.opts.onError # "" =>
                 <<clast'.name \o <<":error">>, clast'.opts.onError>> \in listeners')
      ]_vars

\* the security object and the options of the latest setOpt
Security == clast.security

Options == clast.result

\* C25: setOpt(security) returns options whose auth.authorization is
\* 'Bearer ' + token when a token is given and whose auth['x-api-key'] is the
\* apiKey when one is given; the fields a transformOptions function returns
\* are merged into auth; a transformOptions that returns a non-object is
\* ignored, auth holding only the token and apiKey entries; setOpt returns
\* normally.
C25_SetOptBuildsAuth ==
    (IsClientCall("setOpt") /\ Security.defined) =>
        /\ ~Options.threw
        /\ Security.token.given =>
              /\ "authorization" \in DOMAIN Options.auth
              /\ Options.auth["authorization"] = <<"Bearer", " ">> \o Security.token.value
        /\ Security.apiKey.given =>
              /\ "x-api-key" \in DOMAIN Options.auth
              /\ Options.auth["x-api-key"] = Security.apiKey.value
        /\ Security.transform = "fields" => "customField" \in DOMAIN Options.auth
        /\ Security.transform \in {"string", "nothing", "throws", "null"} =>
              DOMAIN Options.auth \subseteq {"authorization", "x-api-key"}

\* C25: a security object {token, auth} has given options whose auth is the
\* caller's auth object, without the authorization entry.
C25_TokenLostToAuthOption ==
    /\ IsClientCall("setOpt")
    /\ Security.token.given
    /\ Security.auth.given /\ ~Security.authFirst
    /\ Options.auth = OwnAuth
    /\ "authorization" \notin DOMAIN Options.auth

\* ---- the room index ----

\* C26: no key of the room index maps to an empty member set, whatever joins
\* and leaves have been made; a leave that removes the last member deletes the
\* key in the same step, and a leave of a room without an entry changes
\* nothing in the index.
C26_NoEmptyRoom ==
    /\ [](\A r \in DOMAIN rooms : rooms[r] # {})
    /\ [][(last'.kind = "leave" /\ hasRoomListeners(channels[last'.channel])) =>
             IF last'.room \notin DOMAIN rooms
             THEN rooms' = rooms
             ELSE IF rooms[last'.room] \subseteq {last'.conn}
                  THEN /\ last'.room \notin DOMAIN rooms'
                       /\ \A r \in DOMAIN rooms \ {last'.room} :
                             r \in DOMAIN rooms' /\ rooms'[r] = rooms[r]
                  ELSE /\ DOMAIN rooms' = DOMAIN rooms
                       /\ rooms'[last'.room] = rooms[last'.room] \ {last'.conn}
         ]_vars

\* C26: a connection that had joined a room has left it as its last member;
\* the key is gone while another room is still in the index.
C26_LastMemberLeft ==
    /\ last.kind = "leave"
    /\ last.room \notin DOMAIN rooms
    /\ \E k \in DOMAIN channels : <<last.conn, k, last.room>> \in via
    /\ \E r \in DOMAIN rooms : r # last.room /\ rooms[r] # {}

\* ---- ExpiringMap: expiry ----

\* C27: an entry whose timeout has passed is eventually removed, unless it is
\* accessed again (its timestamp changes), whether or not anything is inserted
\* afterwards.
C27_ExpiredEntryEventuallyRemoved ==
    \A k \in MapKeys, ts \in 0..(MaxTime - Timeout - 1) :
        (k \in DOMAIN emap /\ emap[k].timestamp = ts /\ now - ts > Timeout)
            ~> (k \notin DOMAIN emap \/ emap[k].timestamp # ts)

\* C27, the case: the only cleanup that was scheduled has run and kept the
\* entry, which had been read in between; the entry is now older than the
\* timeout and no cleanup is pending.
C27_ExpiredWithNoCleanupPending ==
    /\ timers = <<>>
    /\ mlast.op = "tick"
    /\ swept = {}
    /\ \E k \in DOMAIN emap : now - emap[k].timestamp > Timeout

\* C28: a set and a get of a stored key leave the entry's timestamp at the
\* current time; a set schedules exactly one cleanup, one timeout later; and a
\* cleanup keeps, untouched, every entry accessed less than a timeout before it.
C28_AccessRefreshesAndSetSchedules ==
    [][ /\ mlast'.op \in {"set", "get"} =>
              /\ mlast'.key \in DOMAIN emap'
              /\ emap'[mlast'.key].timestamp = now
        /\ mlast'.op = "set" => timers' = Append(timers, now + Timeout)
        /\ mlast'.op = "get" => timers' = timers
        /\ mlast'.op = "sweep" =>
              \A k \in DOMAIN emap :
                  now - emap[k].timestamp < Timeout =>
                      k \in DOMAIN emap' /\ emap'[k] = emap[k]
      ]_vars

\* C28, the case: a cleanup has deleted an entry and kept another one, which had
\* been read after it was set and less than a timeout before the cleanup.
C28_RefreshedEntrySurvived ==
    /\ mlast.op = "sweep"
    /\ swept # {}
    /\ \E k \in DOMAIN emap :
           /\ now - emap[k].timestamp > 0
           /\ now - emap[k].timestamp < Timeout

\* ---- the shape a handler is called with ----

\* the latest registration call is the one that stored the entry of the channel
\* the event came in on
StoredByLatestCall ==
    /\ ~lastReg.threw
    /\ last.channel = Key(lastReg.call.name, Config.pushManager)
    /\ Config.onEvent = lastReg.call.onEvent

\* C29: a dispatch that gets past the token check calls the handler, and calls
\* it in the shape of the method that registered it: (request, onSuccess,
\* onError[, engine]) for channel(), (request, {room, to, emit}, onError[,
\* engine]) for customChannel(), whatever number of parameters it declares.
C29_InvokedAsRegistered ==
    (IsDispatch /\ last.result.shape # "none" /\ StoredByLatestCall) =>
        last.result.shape =
            (IF lastReg.call.method = "channel" THEN "simple" ELSE "custom")

\* C29, the case: a handler of four parameters registered with channel() has
\* been called with the socket context as its 2nd argument, and its call of
\* that argument as onSuccess has thrown.
C29_ChannelHandlerGivenSocketContext ==
    /\ IsDispatch
    /\ StoredByLatestCall
    /\ lastReg.call.method = "channel"
    /\ Config.onEvent.length = 4
    /\ last.result.shape = "custom"
    /\ last.behaviour.ops = <<"second">>
    /\ last.result.handlerError = ThrowError("res is not a function")

\* ---- registration with a push manager ----

\* the boolean passed at position i of the rest arguments, or the default
BoolArg(args, i, default) ==
    IF Arg(args, i).type = "boolean" THEN Arg(args, i).bool ELSE default

\* C30: the first registration call of a server, made in any of the documented
\* shapes that pass a push manager, (pm), (t, pm) or (t, r, pm), raises nothing
\* and stores the handler under the push-qualified key with that push manager,
\* tokenRequired as passed (false if not) and roomSupport as passed (the
\* server's room setting if not).
C30_PushManagerStored ==
    (nreg = 1 /\ HasPushArg(lastReg.call.args)) =>
        /\ ~lastReg.threw
        /\ DOMAIN channels = {Key(lastReg.call.name, PushManager)}
        /\ channels[Key(lastReg.call.name, PushManager)] =
              Entry(lastReg.call.onEvent,
                    BoolArg(lastReg.call.args, 1, FALSE),
                    BoolArg(lastReg.call.args, 2, roomExpirationTimeState(settings)),
                    PushManager)

\* C30, the case: customChannel('post/products', handler, true, true, pm) has
\* returned normally on a server with rooms off, and the handler is stored under
\* the plain name with no push manager.
C30_PushManagerDropped ==
    /\ nreg = 1
    /\ ~roomExpirationTimeState(settings)
    /\ lastReg.call = Call("customChannel", Post, H("postProducts"),
                           <<ArgBool(TRUE), ArgBool(TRUE), ArgPush>>)
    /\ ~lastReg.threw
    /\ DOMAIN channels = {<<lastReg.call.name>>}
    /\ channels[<<lastReg.call.name>>].pushManager = NoPush

\* ---- the push engine: what the metrics count ----

\* C31: a send invocation whose delivery attempt fails raises `failed`, whether
\* or not it goes on to retry.  Stated for the first invocation of a top-level
\* send: once it is in its catch block, `failed` comes to be at least 1.
C31_FailedInvocationCounted ==
    (Running({"send"}) /\ Chain.pc = "catch" /\ Chain.depth = 0)
        ~> (metrics.failed >= 1)

\* C31, the case: the deliveries of one send to an endpoint that is down have
\* failed MaxNesting times, each in an invocation of its own, and `failed` is
\* still 0.
C31_FailuresNotCounted ==
    /\ Running({"send"})
    /\ Chain.rec.hasAuth
    /\ Chain.rec.endpoint = "down"
    /\ Chain.pc = "catch"
    /\ Chain.calls = MaxNesting
    /\ metrics.failed = 0

\* C32: a top-level send whose first delivery attempt fails with a transient
\* error and one of whose retries delivers ends with `successful` and `retried`
\* each raised by exactly 1, and with no attempt after the one that delivered,
\* however many attempts failed before it.
C32_OneSuccessOneRetry ==
    (/\ Running({"send"})
     /\ pcall.state = "done"
     /\ Chain.rec.hasAuth
     /\ Chain.rec.endpoint \in {"flaky", "flaky2"})
        => (/\ metrics.successful = 1
            /\ metrics.retried = 1
            /\ Transport(Chain.rec.endpoint, Chain.calls - 1) = "ok"
            /\ \A n \in 0..(Chain.calls - 2) :
                   Transport(Chain.rec.endpoint, n) = "other")

\* C32, the case: the send whose first two attempts failed and whose third
\* delivered has ended after three transport calls with one success and two
\* retries counted.
C32_TwoRetriesCounted ==
    /\ Running({"send"})
    /\ pcall.state = "done"
    /\ Chain.rec.endpoint = "flaky2"
    /\ Chain.calls = 3
    /\ metrics = [successful |-> 1, failed |-> 2, retried |-> 2]

\* C33: send calls the push transport for a record only if its endpoint,
\* keys.p256dh and keys.auth are all present and are non-empty strings, and
\* makes no transport call for any other record.
C33_OnlyCompleteRecordsSent ==
    vcall.kind = "send" =>
        (vcall.sent <=>
            /\ vcall.sub.endpoint = "string"
            /\ vcall.sub.keys = "object"
            /\ vcall.sub.p256dh = "string"
            /\ vcall.sub.auth = "string")

\* C33, the case: a record whose keys.p256dh and keys.auth are both the empty
\* string has been handed to the transport.
C33_EmptyKeysSent ==
    /\ vcall.kind = "send"
    /\ vcall.sub = Subscription("string", "object", "empty", "empty")
    /\ vcall.sent

RECURSIVE Sum(_)
Sum(f) ==
    IF DOMAIN f = {} THEN 0
    ELSE LET i == CHOOSE x \in DOMAIN f : TRUE
         IN  f[i] + Sum([j \in DOMAIN f \ {i} |-> f[j]])

\* the transport calls of a chain that were answered with `answer`
Answered(t, answer) ==
    Cardinality({n \in 0..(t.calls - 1) : Transport(t.rec.endpoint, n) = answer})

\* The increment calls the frames of a finished chain have made: one of
\* `successful` per delivery, one of `failed` per frame whose delivery failed,
\* one of `retried` per retrySend that returned.
IncrementCalls(t) ==
    [successful |-> Answered(t, "ok"),
     failed |-> Answered(t, "gone") + Answered(t, "other"),
     retried |-> Answered(t, "other")]

HandlerStarts == {i \in 1..Len(started) : started[i].what = "handler"}

TimesBegun(stamp, what) ==
    Cardinality({i \in 1..Len(started) :
                    started[i].stamp = stamp /\ started[i].what = what})

\* C38: an event received on a registered channel causes at most one handler
\* invocation and at most one token check, however often connection() was called.
C38_AtMostOneInvocationAndCheck ==
    \A stamp \in 1..MaxEvents :
        /\ TimesBegun(stamp, "handler") <= 1
        /\ TimesBegun(stamp, "check") <= 1

\* connection() was called twice before the client connected, and one event of
\* the client had its token checked twice and its handler invoked twice.
C38_InvokedTwice ==
    \E c \in Conns :
        /\ nconnection = 2
        /\ attached[c] = 2
        /\ \E i \in 1..Len(started) :
              /\ started[i].conn = c
              /\ TimesBegun(started[i].stamp, "handler") = 2
              /\ TimesBegun(started[i].stamp, "check") = 2

\* C36: this.rooms and the transport agree: a connection is in the member set
\* the index holds for a room exactly when its socket is in the room.
C36_IndexAgreesWithTransport ==
    \A c \in Conns, r \in RoomNames : c \in Members(r) <=> r \in joined[c]

\* A connection that has ended, and is in no room of the transport, is still
\* in a member set of the index after the server has gone on to other work.
C36_IndexHoldsEndedConnection ==
    \E c \in Conns, r \in RoomNames :
        /\ ~sockets[c].up
        /\ joined[c] = {}
        /\ c \in Members(r)
        /\ last.kind \in {"join", "leave", "dispatch"}
        /\ last.conn # c

\* the success and error events the dispatch just run has emitted
Outcomes ==
    {i \in 1..Len(last.result.emits) :
        last.result.emits[i].event \in {last.channel \o <<":success">>,
                                        last.channel \o <<":error">>}}

\* C37: the client that sent an event receives every success or error event
\* emitted for it, whatever room its params name.
C37_SenderReceivesOutcome ==
    IsDispatch => \A i \in Outcomes : last.conn \in Recipients(last.result.emits[i])

\* A client that is in no room sends an event naming room1 on the channel
\* without room support: the outcome goes to the other client, who joined room1
\* through another channel, and not to the sender.
C37_OutcomeMissesSender ==
    /\ IsDispatch
    /\ last.channel = <<Notify>>
    /\ last.params.room = "room1"
    /\ joined[last.conn] = {}
    /\ Outcomes # {}
    /\ \A i \in Outcomes :
          /\ Recipients(last.result.emits[i]) # {}
          /\ last.conn \notin Recipients(last.result.emits[i])

\* C39: a delete that the push engine makes for a 410 removes the record that
\* was reported gone, not another record saved under the same id since.
C39_DeletesOnlyTheRecordReportedGone ==
    [][\A i \in DOMAIN subs \ DOMAIN subs' :
          /\ i \in DOMAIN tasks
          /\ subs[i].endpoint = tasks[i].rec.endpoint]_vars

\* A subscriber's expired record was replaced with add() while the send to it
\* was under way; the 410 for the old record came back and the id is gone from
\* the store, the new record with it.
C39_NewRecordRemoved ==
    \E i \in DOMAIN tasks :
        /\ pcall.kind = "toAll"
        /\ tasks[i].rec.endpoint = "gone"
        /\ tasks[i].resaved
        /\ tasks[i].pc \in {"return", "done"}
        /\ i \notin DOMAIN subs

\* the step is a dispatch that the token check ended: the handler was not
\* reached and the one event emitted is the Unauthorized error
RejectedByTokenCheck(step) ==
    /\ step.kind = "dispatch"
    /\ step.present
    /\ channels[step.channel].tokenRequired
    /\ step.result.shape = "none"
    /\ ~step.result.threw
    /\ Len(step.result.emits) = 1
    /\ step.result.emits[1].payload = [tag |-> "error", val |-> Unauthorized]

\* C40: a dispatch rejected by the token check changes no socket's stored
\* session, neither the room index nor the channel registry, and leaves the
\* session of its request envelope unset.
C40_RejectionChangesNothing ==
    [][RejectedByTokenCheck(last')
       => /\ sockets' = sockets
          /\ rooms' = rooms
          /\ channels' = channels
          /\ last'.result.dataSession = Undefined]_vars

\* A client whose socket holds the session of an earlier accepted request has a
\* request rejected: the socket still holds that session.
C40_RejectedWithStoredSession ==
    /\ RejectedByTokenCheck(last)
    /\ last.stored = UserSession
    /\ sockets[last.conn].session = UserSession
    /\ last.result.dataSession = Undefined

====
